---- MODULE Spec2Model ----
(***************************************************************************)
(* A model of slidegauge.py (SlideGauge, a static analyzer for Marp        *)
(* Markdown decks): the fence-aware splitter, the per-slide parser, the    *)
(* rule engine with its scoring, the content-addressed cache and the       *)
(* request handlers.                                                       *)
(*                                                                         *)
(* Text.  A line of text is a sequence of characters, each a one-character *)
(* string; a few multi-character atoms ("<!--", "slidegauge:", a JSON      *)
(* payload) stand for that literal run of characters where the code only   *)
(* ever treats the run as a whole.  A string that the code splits on "\n"  *)
(* is the sequence of its lines, so the empty string is << <<>> >>.        *)
(***************************************************************************)
EXTENDS Integers, Sequences, FiniteSets, TLC

VARIABLES
    \* split_slides (src/slidegauge.py:127-168), one step per loop iteration
    lines,      \* the argument: the document's lines
    i,          \* index of the next line to read (1-based)
    slides,     \* the list of closed buffers
    buf,        \* the buffer of the slide being read
    state,      \* "BODY" | "CODE"
    fence,      \* the token that opened the block being read, or NoFence
    ret,        \* the returned list of slide texts
    pc,         \* position in split_slides
    ended,      \* history: the indices of the lines that ended a slide
    \* the analyze operation (src/slidegauge.py:949-1029) and the cache file
    catalogue,  \* which documents the requests are drawn from
    cache_file, \* the content of .slidegauge.cache.json
    last_request, \* the last request handled
    last_response, \* the response to it
    before,     \* history: the cache file the last request loaded
    evaluated,  \* history: the identities the last request gave to evaluate_all
    rerun,      \* history: the last request repeated the one before it
    last_results, \* slide_results of the last request (line 993)
    \* two analyze requests in two processes on one cache file
    cpc,        \* process -> "load" | "eval" | "write" | "done"
    creq,       \* process -> its request
    local,      \* process -> the cache dict it loaded
    cresp,      \* process -> its response
    stored,     \* history: process -> the identities it wrote entries for
    disk,       \* the length of the cache file, and whether it is a JSON text
    \* handle_stdio (src/slidegauge.py:921-932)
    stdin,      \* history: the input lines the stream has read, chunk by chunk
    decoded,    \* the lines of the chunk last read that the loop has yet to take
    stdout,     \* the response lines printed
    crashed,    \* an exception left handle_stdio
    stdin_errors, \* sys.stdin.errors: how the stream treats undecodable bytes
    \* one slide through parse_slides (397-439) and run_rules_on_slide (685-723)
    text_in,    \* the slide text split_slides gave
    config_in,  \* the configuration patch of the request
    parsed_slide, \* the Slide parse_slides built from the text
    rule_result, \* what run_rules_on_slide returned for it
    stage       \* "text" | "parsed" | "scored" | "failed"

splitVars == <<lines, i, slides, buf, state, fence, ret, pc, ended>>
mainVars ==
    <<catalogue, cache_file, last_request, last_response, before, evaluated, rerun,
      last_results>>
concVars == <<cpc, creq, local, cresp, stored, disk>>
stdioVars == <<stdin, decoded, stdout, crashed, stdin_errors>>

slideVars == <<text_in, config_in, parsed_slide, rule_result, stage>>

vars == <<splitVars, mainVars, concVars, stdioVars, slideVars>>

\* The values of the variables of the parts a specification does not run.
NoCache == <<>>
NoRequest == [op |-> "none"]
NoResponse == [ok |-> FALSE, error |-> <<"no request">>]

SplitIdle ==
    /\ lines = <<>> /\ i = 0 /\ slides = <<>> /\ buf = <<>> /\ state = "BODY"
    /\ fence = <<>> /\ ret = <<>> /\ pc = "idle" /\ ended = {}

MainIdle ==
    /\ catalogue = "none" /\ cache_file = NoCache /\ last_request = NoRequest
    /\ last_response = NoResponse /\ before = NoCache /\ evaluated = {} /\ rerun = FALSE
    /\ last_results = <<>>

ConcIdle ==
    /\ cpc = <<>> /\ creq = <<>> /\ local = <<>> /\ cresp = <<>> /\ stored = <<>>
    /\ disk = <<>>

StdioIdle ==
    /\ stdin = <<>> /\ decoded = <<>> /\ stdout = <<>> /\ crashed = FALSE
    /\ stdin_errors = "strict"

SlideIdle ==
    /\ text_in = <<>> /\ config_in = <<>> /\ parsed_slide = <<>> /\ rule_result = <<>>
    /\ stage = "idle"

(***************************************************************************)
(* Bounds of the model.                                                    *)
(***************************************************************************)
MaxDocLen == 5

(***************************************************************************)
(* String helpers: str.strip, str.lstrip, str.rstrip, str.startswith.      *)
(***************************************************************************)
\* The characters str.strip, str.split(None) and the regular expressions' \s
\* take for whitespace, of the code points up to U+00FF: the space, \t, \n, \r,
\* \f, U+000B, U+001C to U+001F, U+0085 and U+00A0.
WhiteSpace ==
    {" ", "\t", "\n", "\r", "\f", "", "", "", "", "", "", " "}

IsSpace(c) == c \in WhiteSpace

RECURSIVE LStrip(_)
LStrip(s) == IF s # <<>> /\ IsSpace(Head(s)) THEN LStrip(Tail(s)) ELSE s

RECURSIVE RStrip(_)
RStrip(s) ==
    IF s # <<>> /\ IsSpace(s[Len(s)]) THEN RStrip(SubSeq(s, 1, Len(s) - 1)) ELSE s

Strip(s) == RStrip(LStrip(s))

StartsWith(s, p) == Len(s) >= Len(p) /\ SubSeq(s, 1, Len(p)) = p

IsBlank(s) == Strip(s) = <<>>

\* p occurs in t as a contiguous run.
IsInfix(p, t) ==
    \E o \in 0..(Len(t) - Len(p)) : SubSeq(t, o + 1, o + Len(p)) = p

StripEach(t) == [n \in 1..Len(t) |-> Strip(t[n])]

Separator == <<"-", "-", "-">>
\* The character U+0060, which a TLA+ string cannot hold.
Backtick == "BACKTICK"

Backticks == <<Backtick, Backtick, Backtick>>

\* The characters of an atom, and of a line: an atom stands for the run of
\* characters it spells.
Explode(a) == IF a = Backtick THEN <<a>> ELSE [n \in 1..Len(a) |-> SubSeq(a, n, n)]

RECURSIVE Spell(_)
Spell(s) == IF s = <<>> THEN <<>> ELSE Explode(Head(s)) \o Spell(Tail(s))

Chars(s) == IF \A n \in 1..Len(s) : s[n] = Backtick \/ Len(s[n]) = 1 THEN s ELSE Spell(s)

\* str.lower of a character, and of a string; of the code points up to U+00FF
\* A to Z and the letters U+00C0 to U+00DE (the sign U+00D7 is none) have a
\* lower case, 32 code points up.
UpperCase == "ABCDEFGHIJKLMNOPQRSTUVWXYZ"
LowerCase == "abcdefghijklmnopqrstuvwxyz"
UpperLatin == "ÀÁÂÃÄÅÆÇÈÉÊËÌÍÎÏÐÑÒÓÔÕÖØÙÚÛÜÝÞ"
LowerLatin == "àáâãäåæçèéêëìíîïðñòóôõöøùúûüýþ"

UpperLetters == Explode(UpperCase) \o Explode(UpperLatin)
LowerLetters == Explode(LowerCase) \o Explode(LowerLatin)

RECURSIVE LowerPairs(_)
LowerPairs(n) ==
    IF n = 0 THEN <<>> ELSE (UpperLetters[n] :> LowerLetters[n]) @@ LowerPairs(n - 1)

LowerOf == LowerPairs(Len(UpperLetters))
HasLower == DOMAIN LowerOf

Lower(c) == IF c \in HasLower THEN LowerOf[c] ELSE c

LowerAll(s) == [n \in 1..Len(s) |-> Lower(s[n])]

\* The characters the regular expressions' \w matches, of the code points up to
\* U+00FF.
WordChars ==
    LET all == Explode("0123456789_") \o Explode(UpperCase) \o Explode(LowerCase)
               \o Explode("ª²³µ¹º¼½¾ÀÁÂÃÄÅÆÇÈÉÊËÌÍÎÏÐÑÒÓÔÕÖØÙÚÛÜÝÞßàáâãäåæçèéêëìíîïðñòóôõöøùúûüýþÿ")
    IN {all[n] : n \in 1..Len(all)}

IsWordChar(c) == c \in WordChars

\* A text with every atom of its lines spelled out.
Text(t) == [n \in 1..Len(t) |-> Chars(t[n])]

\* s.startswith(sub, k - 1): sub stands in s at the index k.
StartsAt(s, sub, k) ==
    /\ k + Len(sub) - 1 <= Len(s)
    /\ \A n \in 1..Len(sub) : s[k + n - 1] = sub[n]

\* s.find(sub, k): the first index from k on where sub starts, or 0.
RECURSIVE FindFrom(_, _, _)
FindFrom(s, sub, k) ==
    IF k + Len(sub) - 1 > Len(s) THEN 0
    ELSE IF StartsAt(s, sub, k) THEN k
    ELSE FindFrom(s, sub, k + 1)

Tildes == <<"~", "~", "~">>
NoFence == <<>>

\* The empty string, as the list of its lines.
EmptyText == << <<>> >>

\* "\n".join(s).strip() of a list of lines s: whitespace, newlines included, is
\* removed at both ends of the joined string.
RECURSIVE DropBlankHead(_)
DropBlankHead(t) ==
    IF t # <<>> /\ IsBlank(Head(t)) THEN DropBlankHead(Tail(t)) ELSE t

RECURSIVE DropBlankTail(_)
DropBlankTail(t) ==
    IF t # <<>> /\ IsBlank(t[Len(t)])
    THEN DropBlankTail(SubSeq(t, 1, Len(t) - 1))
    ELSE t

StripText(t) ==
    LET u == DropBlankTail(DropBlankHead(t)) IN
    IF u = <<>> THEN EmptyText
    ELSE IF Len(u) = 1 THEN <<Strip(u[1])>>
    ELSE <<LStrip(u[1])>> \o SubSeq(u, 2, Len(u) - 1) \o <<RStrip(u[Len(u)])>>

(***************************************************************************)
(* split_slides                                                            *)
(***************************************************************************)
is_fence(l) ==
    LET s == LStrip(l) IN
    IF StartsWith(s, Backticks) THEN Backticks
    ELSE IF StartsWith(s, Tildes) THEN Tildes
    ELSE NoFence

\* The index of the first line the loop reads: 1, or the line after the marker
\* that closes a leading frontmatter block (past the end when none closes it).
RECURSIVE NextSeparator(_, _)
NextSeparator(ls, k) ==
    IF k <= Len(ls) /\ Strip(ls[k]) # Separator THEN NextSeparator(ls, k + 1) ELSE k

\* A variant that resumes on the closing marker instead of after it.
FrontmatterEndOnMarker(ls) ==
    IF Len(ls) >= 1 /\ Strip(ls[1]) = Separator
    THEN NextSeparator(ls, 2)
    ELSE 1

FrontmatterEnd(ls) ==
    IF Len(ls) >= 1 /\ Strip(ls[1]) = Separator
    THEN NextSeparator(ls, 2) + 1
    ELSE 1

\* The branches of the loop body, on st = [slides, buf, state, fence].
OnFenceOpen(st, ln) ==
    [st EXCEPT !.state = "CODE", !.fence = is_fence(ln), !.buf = Append(st.buf, ln)]

OnSeparator(st) ==
    [st EXCEPT !.slides = IF st.buf # <<>> THEN Append(st.slides, st.buf)
                          ELSE st.slides,
               !.buf = <<>>]

OnBodyLine(st, ln) == [st EXCEPT !.buf = Append(st.buf, ln)]

\* Mutant: any fence token closes the block, not only the one that opened it.
ClosesFenceAnyToken(st, ln) == is_fence(ln) # NoFence

ClosesFence(st, ln) == StartsWith(LStrip(ln), st.fence)

OnCodeLine(st, ln) ==
    IF ClosesFence(st, ln)
    THEN [st EXCEPT !.buf = Append(st.buf, ln), !.state = "BODY", !.fence = NoFence]
    ELSE [st EXCEPT !.buf = Append(st.buf, ln)]

SplitsHere(st, ln) == st.state = "BODY" /\ is_fence(ln) = NoFence /\ Strip(ln) = Separator

SplitStep(st, ln) ==
    IF st.state = "BODY"
    THEN IF is_fence(ln) # NoFence THEN OnFenceOpen(st, ln)
         ELSE IF SplitsHere(st, ln) THEN OnSeparator(st)
         ELSE OnBodyLine(st, ln)
    ELSE OnCodeLine(st, ln)

SplitInit == [slides |-> <<>>, buf |-> <<>>, state |-> "BODY", fence |-> NoFence]

\* lines 165-168: the last buffer, then the join, the strip and the filter.
SplitFinish(st) ==
    LET all == IF st.buf # <<>> THEN Append(st.slides, st.buf) ELSE st.slides
        texts == [n \in 1..Len(all) |-> StripText(all[n])]
    IN SelectSeq(texts, LAMBDA t : t # EmptyText)

RECURSIVE SplitFrom(_, _, _)
SplitFrom(st, ls, k) ==
    IF k > Len(ls) THEN st ELSE SplitFrom(SplitStep(st, ls[k]), ls, k + 1)

split_slides(ls) == SplitFinish(SplitFrom(SplitInit, ls, FrontmatterEnd(ls)))

(***************************************************************************)
(* split_slides as a state machine: one action per branch of the loop.     *)
(***************************************************************************)
LineAlphabet ==
    { Separator, <<" ">> \o Separator \o <<"\r">>, <<" ">> \o Backticks, Tildes, <<"a">>, <<>> }

SplitInputs == UNION { [1..m -> LineAlphabet] : m \in 1..MaxDocLen }

SplitState == [slides |-> slides, buf |-> buf, state |-> state, fence |-> fence]

SetSplitState(st) ==
    /\ slides' = st.slides
    /\ buf' = st.buf
    /\ state' = st.state
    /\ fence' = st.fence

InitSplit ==
    /\ lines \in SplitInputs
    /\ i = 0
    /\ slides = <<>>
    /\ buf = <<>>
    /\ state = "BODY"
    /\ fence = NoFence
    /\ ret = <<>>
    /\ pc = "frontmatter"
    /\ ended = {}
    /\ MainIdle /\ ConcIdle /\ StdioIdle /\ SlideIdle

SplitFrontmatter ==
    /\ pc = "frontmatter"
    /\ i' = FrontmatterEnd(lines)
    /\ pc' = "loop"
    /\ UNCHANGED <<lines, slides, buf, state, fence, ret, ended>>
    /\ UNCHANGED <<mainVars, concVars, stdioVars, slideVars>>

SplitFenceOpen ==
    /\ pc = "loop" /\ i <= Len(lines)
    /\ state = "BODY" /\ is_fence(lines[i]) # NoFence
    /\ SetSplitState(OnFenceOpen(SplitState, lines[i]))
    /\ i' = i + 1
    /\ UNCHANGED <<lines, ret, pc, ended>>
    /\ UNCHANGED <<mainVars, concVars, stdioVars, slideVars>>

SplitSeparator ==
    /\ pc = "loop" /\ i <= Len(lines)
    /\ SplitsHere(SplitState, lines[i])
    /\ SetSplitState(OnSeparator(SplitState))
    /\ ended' = ended \cup {i}
    /\ i' = i + 1
    /\ UNCHANGED <<lines, ret, pc>>
    /\ UNCHANGED <<mainVars, concVars, stdioVars, slideVars>>

SplitBodyLine ==
    /\ pc = "loop" /\ i <= Len(lines)
    /\ state = "BODY" /\ is_fence(lines[i]) = NoFence
    /\ ~SplitsHere(SplitState, lines[i])
    /\ SetSplitState(OnBodyLine(SplitState, lines[i]))
    /\ i' = i + 1
    /\ UNCHANGED <<lines, ret, pc, ended>>
    /\ UNCHANGED <<mainVars, concVars, stdioVars, slideVars>>

SplitCodeLine ==
    /\ pc = "loop" /\ i <= Len(lines)
    /\ state = "CODE"
    /\ SetSplitState(OnCodeLine(SplitState, lines[i]))
    /\ i' = i + 1
    /\ UNCHANGED <<lines, ret, pc, ended>>
    /\ UNCHANGED <<mainVars, concVars, stdioVars, slideVars>>

SplitReturn ==
    /\ pc = "loop" /\ i > Len(lines)
    /\ ret' = SplitFinish(SplitState)
    /\ pc' = "done"
    /\ UNCHANGED <<lines, i, slides, buf, state, fence, ended>>
    /\ UNCHANGED <<mainVars, concVars, stdioVars, slideVars>>

NextSplit ==
    \/ SplitFrontmatter
    \/ SplitFenceOpen
    \/ SplitSeparator
    \/ SplitBodyLine
    \/ SplitCodeLine
    \/ SplitReturn

SpecSplit == InitSplit /\ [][NextSplit]_vars

(***************************************************************************)
(* JSON values.  A number is N(n); a string is S(s), and stands for every  *)
(* value the rules cannot compute with where a number is expected; a list  *)
(* of bucket patterns is L(l); a dict is D(f), f a function from its keys; *)
(* null is Missing, which is also what Get gives for a key that is absent. *)
(* The thresholds the source writes with a decimal point (pass_rate and    *)
(* the two contrast thresholds) are held in tenths.                        *)
(***************************************************************************)
N(n) == [t |-> "num", n |-> n]
S(s) == [t |-> "str", s |-> s]
L(l) == [t |-> "list", l |-> l]
D(f) == [t |-> "dict", d |-> f]
Missing == [t |-> "missing"]
EmptyDict == D(<<>>)

IsNum(v) == v.t = "num"
IsDict(v) == v.t = "dict"

\* v[k]; Missing where Python raises KeyError or TypeError.
Get(v, k) == IF IsDict(v) /\ k \in DOMAIN v.d THEN v.d[k] ELSE Missing

\* v[k] raises nothing: v is a dict that has the key, whatever its value.
Has(v, k) == IsDict(v) /\ k \in DOMAIN v.d

Get2(v, k1, k2) == Get(Get(v, k1), k2)
Get3(v, k1, k2, k3) == Get(Get(Get(v, k1), k2), k3)
Has3(v, k1, k2, k3) == Has(Get2(v, k1, k2), k3)

\* Rule identifiers and bucket patterns as runs of atoms, for str.startswith
\* and str.endswith.
IdAtoms(rule) ==
    CASE rule = "title/required" -> <<"title", "/", "required">>
      [] rule = "title/too_long" -> <<"title", "/", "too_long">>
      [] rule = "content/too_long" -> <<"content", "/", "too_long">>
      [] rule = "content/too_short" -> <<"content", "/", "too_short">>
      [] rule = "bullets/too_many" -> <<"bullets", "/", "too_many">>
      [] rule = "lines/too_many" -> <<"lines", "/", "too_many">>
      [] rule = "color/low_contrast" -> <<"color", "/", "low_contrast">>
      [] rule = "color/too_many" -> <<"color", "/", "too_many">>
      [] rule = "accessibility/alt_required" -> <<"accessibility", "/", "alt_required">>
      [] rule = "links/bare_urls" -> <<"links", "/", "bare_urls">>
      [] rule = "code/too_long" -> <<"code", "/", "too_long">>
      [] rule = "structure/duplicate_titles" -> <<"structure", "/", "duplicate_titles">>

Glob(category) == <<category, "/", "*">>

DEFAULTS ==
    D([ threshold |-> N(70),
        pass_rate |-> N(8),
        rules |-> D([
            title |-> D([ required |-> N(1), max_main |-> N(35), max_sub |-> N(50) ]),
            content |-> D([ max_chars |-> N(350), min_chars |-> N(50),
                            exercise_max_chars |-> N(450), max_lines |-> N(15),
                            max_bullets |-> N(6), max_bullet_len |-> N(80) ]),
            code |-> D([ max_simple |-> N(10), max_complex |-> N(5),
                         max_line_len |-> N(100) ]),
            special |-> D([ table_char_eq |-> N(100), chart_char_eq |-> N(100),
                            code_char_eq |-> N(150) ]),
            color |-> D([ min_contrast_warn |-> N(45), min_contrast_error |-> N(30),
                          max_colors |-> N(6) ]) ]),
        weights |-> D(
            [ r \in { "title/required", "title/too_long", "content/too_long",
                      "content/too_short", "bullets/too_many", "bullets/too_long",
                      "code/too_long", "code/long_line", "lines/too_many",
                      "accessibility/alt_required", "links/bare_urls",
                      "structure/duplicate_titles", "meta/theme_required",
                      "color/low_contrast", "color/too_many", "color/unlabeled" } |->
                CASE r = "title/required" -> N(20)
                  [] r = "title/too_long" -> N(10)
                  [] r = "content/too_long" -> N(15)
                  [] r = "content/too_short" -> N(5)
                  [] r = "bullets/too_many" -> N(10)
                  [] r = "bullets/too_long" -> N(5)
                  [] r = "code/too_long" -> N(8)
                  [] r = "code/long_line" -> N(5)
                  [] r = "lines/too_many" -> N(10)
                  [] r = "accessibility/alt_required" -> N(8)
                  [] r = "links/bare_urls" -> N(3)
                  [] r = "structure/duplicate_titles" -> N(5)
                  [] r = "meta/theme_required" -> N(5)
                  [] r = "color/low_contrast" -> N(10)
                  [] r = "color/too_many" -> N(5)
                  [] r = "color/unlabeled" -> N(5) ]),
        buckets |-> D([
            content |-> L(<<Glob("title"), Glob("content"), Glob("bullets"),
                            Glob("lines"), Glob("structure")>>),
            code |-> L(<<Glob("code")>>),
            layout |-> L(<<Glob("meta"), Glob("structure")>>),
            a11y |-> L(<<Glob("accessibility"), Glob("links")>>),
            color |-> L(<<Glob("color")>>) ]) ])

\* deep_merge(a, b): the merged dict (the source updates a in place and returns it).
RECURSIVE deep_merge(_, _)
deep_merge(a, b) ==
    D([ k \in DOMAIN a.d \cup DOMAIN b.d |->
          IF k \notin DOMAIN b.d THEN a.d[k]
          ELSE IF IsDict(b.d[k]) /\ k \in DOMAIN a.d /\ IsDict(a.d[k])
               THEN deep_merge(a.d[k], b.d[k])
               ELSE b.d[k] ])

(***************************************************************************)
(* Findings.  A message is its format with the numbers and the strings     *)
(* that fill it.                                                           *)
(***************************************************************************)
Msg(fmt, nums, strs) == [fmt |-> fmt, nums |-> nums, strs |-> strs]

Finding(rule, severity, message, deduction) ==
    [rule |-> rule, severity |-> severity, message |-> message, deduction |-> deduction]

\* The rule identifiers in the order sorted() gives them.
RuleOrder ==
    << "accessibility/alt_required", "bullets/too_many", "code/too_long",
       "color/low_contrast", "color/too_many", "content/too_long",
       "content/too_short", "lines/too_many", "links/bare_urls",
       "structure/duplicate_titles", "title/required", "title/too_long" >>

RuleRank(rule) == CHOOSE n \in 1..Len(RuleOrder) : RuleOrder[n] = rule

\* sorted(diags, key=lambda f: (f.rule, f.message)): a stable insertion sort on the
\* rule identifier; no slide carries two findings of one rule, so the message
\* never decides.
RECURSIVE InsertFinding(_, _)
InsertFinding(sorted, f) ==
    IF sorted = <<>> THEN <<f>>
    ELSE IF RuleRank(f.rule) < RuleRank(Head(sorted).rule)
         THEN <<f>> \o sorted
         ELSE <<Head(sorted)>> \o InsertFinding(Tail(sorted), f)

RECURSIVE SortFindings(_)
SortFindings(fs) ==
    IF fs = <<>> THEN <<>>
    ELSE InsertFinding(SortFindings(SubSeq(fs, 1, Len(fs) - 1)), fs[Len(fs)])

Max(a, b) == IF a >= b THEN a ELSE b
Min(a, b) == IF a <= b THEN a ELSE b

RECURSIVE SumDeductions(_)
SumDeductions(fs) ==
    IF fs = <<>> THEN 0 ELSE Max(0, Head(fs).deduction) + SumDeductions(Tail(fs))

\* lines 705-706 and 760-761
ScoreOf(diags) == Max(0, Min(100, 100 - SumDeductions(diags)))


(***************************************************************************)
(* The rule registry.  A check gives Ok(findings), or Raise where Python   *)
(* raises (a missing key, a comparison or a sum with a non-number).        *)
(***************************************************************************)
Raise == [raised |-> TRUE, out |-> <<>>]
Ok(fs) == [raised |-> FALSE, out |-> fs]

Disabled(slide, id) == Explode(id) \in slide.overrides.disabled

\* Finding(..., deduction=cfg["weights"][id]); a weight that is no number fails
\* the score's sum.
Weighted(cfg, id, severity, message) ==
    LET w == Get2(cfg, "weights", id) IN
    IF IsNum(w) THEN Ok(<<Finding(id, severity, message, w.n)>>) ELSE Raise

TitleRequired(slide, cfg) ==
    IF slide.metrics.title_length = 0 /\ ~Disabled(slide, "title/required")
    THEN Weighted(cfg, "title/required", "error",
                  Msg("Slide missing title - add # Title or ## Title", <<>>, <<>>))
    ELSE Ok(<<>>)

TitleTooLong(slide, cfg) ==
    LET max_len == Get3(cfg, "rules", "title", "max_main")
        len == slide.metrics.title_length
    IN IF ~IsNum(max_len) THEN Raise
       ELSE IF len > max_len.n /\ ~Disabled(slide, "title/too_long")
       THEN Weighted(cfg, "title/too_long", "warning",
                     Msg("Title length {} > max {} (shorten by {} chars)",
                         <<len, max_len.n, len - max_len.n>>, <<>>))
       ELSE Ok(<<>>)

ContentTooLong(slide, cfg) ==
    LET limit == IF slide.metrics.is_exercise
                 THEN Get3(cfg, "rules", "content", "exercise_max_chars")
                 ELSE Get3(cfg, "rules", "content", "max_chars")
        val == slide.metrics.content_chars_adjusted
    IN IF ~IsNum(limit) THEN Raise
       ELSE IF val > limit.n /\ ~Disabled(slide, "content/too_long")
       THEN Weighted(cfg, "content/too_long", "warning",
                     Msg("Adjusted content {} > max {} (reduce by ~{} chars or split into 2 slides)",
                         <<val, limit.n, val - limit.n>>, <<>>))
       ELSE Ok(<<>>)

ContentTooShort(slide, cfg) ==
    LET min_len == Get3(cfg, "rules", "content", "min_chars")
        val == slide.metrics.content_chars
    IN IF ~Has3(cfg, "rules", "content", "min_chars") THEN Raise
       ELSE IF val <= 0 THEN Ok(<<>>)
       ELSE IF ~IsNum(min_len) THEN Raise
       ELSE IF val < min_len.n /\ ~Disabled(slide, "content/too_short")
       THEN Weighted(cfg, "content/too_short", "info",
                     Msg("Content {} < min {} (add ~{} chars)",
                         <<val, min_len.n, min_len.n - val>>, <<>>))
       ELSE Ok(<<>>)

BulletsTooMany(slide, cfg) ==
    LET max_bullets == Get3(cfg, "rules", "content", "max_bullets")
        val == slide.metrics.bullets
    IN IF ~IsNum(max_bullets) THEN Raise
       ELSE IF val > max_bullets.n /\ ~Disabled(slide, "bullets/too_many")
       THEN Weighted(cfg, "bullets/too_many", "warning",
                     Msg("{} bullets > max {} (remove {} or split slide)",
                         <<val, max_bullets.n, val - max_bullets.n>>, <<>>))
       ELSE Ok(<<>>)

LinesTooMany(slide, cfg) ==
    LET max_lines == Get3(cfg, "rules", "content", "max_lines")
        val == slide.metrics.lines
    IN IF ~IsNum(max_lines) THEN Raise
       ELSE IF val > max_lines.n /\ ~Disabled(slide, "lines/too_many")
       THEN Weighted(cfg, "lines/too_many", "warning",
                     Msg("{} lines > max {} (condense or split into 2 slides)",
                         <<val, max_lines.n>>, <<>>))
       ELSE Ok(<<>>)

\* A contrast is the fraction num/den the double of the code stands for, and
\* whether that double lies below the fraction; a threshold is held in tenths.
NoContrast == [some |-> FALSE, num |-> 0, den |-> 1, below |-> FALSE]

\* A variant that takes a contrast equal to the threshold for one below it.
ContrastAtMost(mc, tenths) ==
    IF mc.den < 0 THEN mc.num * 10 >= tenths * mc.den ELSE mc.num * 10 <= tenths * mc.den
\* mc < threshold on the doubles: as on the fractions, but for a double that
\* lies below the tenth its fraction equals.
ContrastBelow(mc, tenths) ==
    \/ IF mc.den < 0 THEN mc.num * 10 > tenths * mc.den
       ELSE mc.num * 10 < tenths * mc.den
    \/ mc.below /\ mc.num * 10 = tenths * mc.den

ColorLowContrast(slide, cfg) ==
    LET warn_thresh == Get3(cfg, "rules", "color", "min_contrast_warn")
        err_thresh == Get3(cfg, "rules", "color", "min_contrast_error")
        mc == slide.metrics.min_contrast
        w == Get2(cfg, "weights", "color/low_contrast")
    IN IF ~Has3(cfg, "rules", "color", "min_contrast_warn") THEN Raise
       ELSE IF ~Has3(cfg, "rules", "color", "min_contrast_error") THEN Raise
       ELSE IF ~mc.some \/ Disabled(slide, "color/low_contrast") THEN Ok(<<>>)
       ELSE IF ~IsNum(err_thresh) THEN Raise
       ELSE IF ContrastBelow(mc, err_thresh.n)
       THEN Weighted(cfg, "color/low_contrast", "error",
                     Msg("Contrast {} below minimum {} (use darker/lighter colors)",
                         <<mc.num, mc.den, err_thresh.n>>, <<>>))
       ELSE IF ~IsNum(warn_thresh) THEN Raise
       ELSE IF ContrastBelow(mc, warn_thresh.n)
       THEN IF IsNum(w)
            THEN Ok(<<Finding("color/low_contrast", "warning",
                      Msg("Contrast {} below recommended {} (increase for better readability)",
                          <<mc.num, mc.den, warn_thresh.n>>, <<>>),
                      w.n \div 2)>>)
            ELSE Raise
       ELSE Ok(<<>>)

ColorTooMany(slide, cfg) ==
    LET max_colors == Get3(cfg, "rules", "color", "max_colors")
        unique_colors == slide.metrics.unique_colors
    IN IF ~IsNum(max_colors) THEN Raise
       ELSE IF unique_colors > max_colors.n /\ ~Disabled(slide, "color/too_many")
       THEN Weighted(cfg, "color/too_many", "warning",
                     Msg("{} unique colors > max {} (reduce by {})",
                         <<unique_colors, max_colors.n, unique_colors - max_colors.n>>,
                         <<>>))
       ELSE Ok(<<>>)

AltRequired(slide, cfg) ==
    LET missing_alt == SelectSeq(slide.metrics.images, LAMBDA im : IsBlank(im.alt))
    IN IF missing_alt # <<>> /\ ~Disabled(slide, "accessibility/alt_required")
       THEN Weighted(cfg, "accessibility/alt_required", "error",
                     Msg("{} images missing alt text (add descriptions in ![alt text](url))",
                         <<Len(missing_alt)>>, <<>>))
       ELSE Ok(<<>>)

BareUrls(slide, cfg) ==
    LET bare_count == slide.metrics.bare_urls
    IN IF bare_count > 0 /\ ~Disabled(slide, "links/bare_urls")
       THEN Weighted(cfg, "links/bare_urls", "info",
                     Msg("{} bare URLs (use [link text](url) format)",
                         <<bare_count>>, <<>>))
       ELSE Ok(<<>>)

ComplexLanguages ==
    { Explode("python"), Explode("javascript"), Explode("java"), Explode("cpp") }

CodeTooLong(slide, cfg) ==
    LET max_simple == Get3(cfg, "rules", "code", "max_simple")
        max_complex == Get3(cfg, "rules", "code", "max_complex")
        blocks == slide.metrics.code_blocks
        max_allowed(b) == IF b.lang \in ComplexLanguages THEN max_complex ELSE max_simple
        issues == SelectSeq(blocks, LAMBDA b : b.lines > max_allowed(b).n)
        \* lines, max_allowed and excess of the issues, one after the other
        Numbers(found) ==
            [n \in 1..(3 * Len(found)) |->
                LET b == found[(n + 2) \div 3]
                IN CASE n % 3 = 1 -> b.lines
                     [] n % 3 = 2 -> max_allowed(b).n
                     [] OTHER -> b.lines - max_allowed(b).n]
    IN IF ~Has3(cfg, "rules", "code", "max_simple") THEN Raise
       ELSE IF ~Has3(cfg, "rules", "code", "max_complex") THEN Raise
       ELSE IF \E n \in 1..Len(blocks) : ~IsNum(max_allowed(blocks[n])) THEN Raise
       ELSE IF issues # <<>> /\ ~Disabled(slide, "code/too_long")
       THEN Weighted(cfg, "code/too_long", "warning",
                     Msg("{} code {} lines > max {} (trim {} lines or split)",
                         Numbers(issues),
                         [n \in 1..Len(issues) |-> issues[n].lang]))
       ELSE Ok(<<>>)

REGISTRY ==
    << "title/required", "title/too_long", "content/too_long", "content/too_short",
       "bullets/too_many", "lines/too_many", "color/low_contrast", "color/too_many",
       "accessibility/alt_required", "links/bare_urls", "code/too_long" >>

Check(id, slide, cfg) ==
    CASE id = "title/required" -> TitleRequired(slide, cfg)
      [] id = "title/too_long" -> TitleTooLong(slide, cfg)
      [] id = "content/too_long" -> ContentTooLong(slide, cfg)
      [] id = "content/too_short" -> ContentTooShort(slide, cfg)
      [] id = "bullets/too_many" -> BulletsTooMany(slide, cfg)
      [] id = "lines/too_many" -> LinesTooMany(slide, cfg)
      [] id = "color/low_contrast" -> ColorLowContrast(slide, cfg)
      [] id = "color/too_many" -> ColorTooMany(slide, cfg)
      [] id = "accessibility/alt_required" -> AltRequired(slide, cfg)
      [] id = "links/bare_urls" -> BareUrls(slide, cfg)
      [] id = "code/too_long" -> CodeTooLong(slide, cfg)

(***************************************************************************)
(* The engine.                                                             *)
(***************************************************************************)
\* The string a run of atoms spells.
RECURSIVE Joined(_)
Joined(atoms) == IF atoms = <<>> THEN "" ELSE Head(atoms) \o Joined(Tail(atoms))

\* pattern.endswith("*") and rule.startswith(pattern[:-1]), or rule == pattern,
\* on strings
StringPatternMatches(pattern, rule) ==
    LET n == Len(pattern)
    IN IF n > 0 /\ SubSeq(pattern, n, n) = "*"
       THEN Len(rule) >= n - 1 /\ SubSeq(rule, 1, n - 1) = SubSeq(pattern, 1, n - 1)
       ELSE rule = pattern

\* The same for a pattern held as a run of atoms: atom by atom where the atoms
\* of the pattern are those of the rule, else on the strings they spell.
PatternMatches(pattern, rule) ==
    \/ IF pattern # <<>> /\ pattern[Len(pattern)] = "*"
       THEN StartsWith(IdAtoms(rule), SubSeq(pattern, 1, Len(pattern) - 1))
       ELSE IdAtoms(rule) = pattern
    \/ StringPatternMatches(Joined(pattern), rule)
\* A variant that adds the deduction as it is, negative ones included.
BucketHitRaw(patterns, finding) ==
    IF \E n \in 1..Len(patterns) : PatternMatches(patterns[n], finding.rule)
    THEN finding.deduction
    ELSE 0

\* A variant that adds the deduction once for every pattern that matches.
BucketHitPerPattern(patterns, finding) ==
    Max(0, finding.deduction)
        * Cardinality({ n \in 1..Len(patterns) : PatternMatches(patterns[n], finding.rule) })

\* lines 711-720 (and 765-774): a finding adds its deduction at its first
\* matching pattern, and the loop over the patterns then breaks.
BucketHit(patterns, finding) ==
    IF \E n \in 1..Len(patterns) : PatternMatches(patterns[n], finding.rule)
    THEN Max(0, finding.deduction)
    ELSE 0

RECURSIVE BucketDeduction(_, _)
BucketDeduction(patterns, diags) ==
    IF diags = <<>> THEN 0
    ELSE BucketHit(patterns, Head(diags)) + BucketDeduction(patterns, Tail(diags))

\* line 721 (and 775)
BucketScore(patterns, diags) == Max(0, 100 - BucketDeduction(patterns, diags))

\* `for pattern in patterns` on a bucket whose value is no list: the patterns
\* are the characters of a string and the keys of a dict, each a string.
StringPatterns(value) ==
    CASE value.t = "str" -> { SubSeq(value.s, n, n) : n \in 1..Len(value.s) }
      [] value.t = "dict" -> DOMAIN value.d
      [] OTHER -> {}

RECURSIVE StringDeduction(_, _)
StringDeduction(patterns, diags) ==
    IF diags = <<>> THEN 0
    ELSE (IF \E pattern \in patterns : StringPatternMatches(pattern, Head(diags).rule)
          THEN Max(0, Head(diags).deduction)
          ELSE 0) + StringDeduction(patterns, Tail(diags))

\* The score of one bucket of the configuration, lines 709-721 (and 763-775).
BucketValueScore(value, diags) ==
    IF value.t = "list" THEN BucketScore(value.l, diags)
    ELSE Max(0, 100 - StringDeduction(StringPatterns(value), diags))

\* `for pattern in patterns` raises on a bucket whose value is a number or
\* null, once there is a finding to match against it.
BucketsRaise(buckets, diags) ==
    \/ ~IsDict(buckets)
    \/ diags # <<>>
       /\ \E name \in DOMAIN buckets.d : buckets.d[name].t \in {"num", "missing"}

BucketScores(buckets, diags) ==
    [ name \in DOMAIN buckets.d |-> BucketValueScore(buckets.d[name], diags) ]

RECURSIVE RunRegistry(_, _, _)
RunRegistry(ids, slide, effective) ==
    IF ids = <<>> THEN Ok(<<>>)
    ELSE LET Collect(this, rest) ==
                 IF this.raised \/ rest.raised THEN Raise ELSE Ok(this.out \o rest.out)
         IN Collect(IF Disabled(slide, Head(ids)) THEN Ok(<<>>)
                    ELSE Check(Head(ids), slide, effective),
                    RunRegistry(Tail(ids), slide, effective))

\* The per-slide effective configuration, lines 689-691.
EffectiveFor(slide, cfg) ==
    IF slide.overrides.rules # EmptyDict
    THEN deep_merge(cfg, slide.overrides.rules)
    ELSE cfg

Evaluation(raised, diags, score, bucket_scores) ==
    [raised |-> raised, diags |-> diags, score |-> score, bucket_scores |-> bucket_scores]

Raised == Evaluation(TRUE, <<>>, 0, <<>>)

run_rules_on_slide(slide, cfg) ==
    LET effective == EffectiveFor(slide, cfg)
        Scored(found, diags, buckets) ==
            IF found.raised \/ BucketsRaise(buckets, diags) THEN Raised
            ELSE Evaluation(FALSE, diags, ScoreOf(diags), BucketScores(buckets, diags))
        Sorted(found) == Scored(found, SortFindings(found.out), Get(effective, "buckets"))
    IN Sorted(RunRegistry(REGISTRY, slide, effective))


\* The slide.index of the slides of the deck that carry the title, in order.
TitleIndices(deck, title) ==
    LET same == SelectSeq(deck, LAMBDA sl : sl.title = title)
    IN [n \in 1..Len(same) |-> same[n].index]

DuplicateFinding(title, count) ==
    Finding("structure/duplicate_titles", "warning",
            Msg("Duplicate title '{}' found on {} slides", <<count>>, <<title>>), 5)
\* A variant that counts the empty title as a title.
check_duplicate_titles_any(deck) ==
    LET dup == SelectSeq(deck, LAMBDA sl : Len(TitleIndices(deck, sl.title)) > 1)
        idxs == { dup[n].index : n \in 1..Len(dup) }
    IN [ idx \in idxs |->
           LET mine == SelectSeq(dup, LAMBDA sl : sl.index = idx)
           IN [n \in 1..Len(mine) |->
                 DuplicateFinding(mine[n].title,
                                  Len(TitleIndices(deck, mine[n].title)))] ]

\* check_duplicate_titles: index -> findings, defined on the indices of the slides
\* whose non-empty title is on more than one slide.
check_duplicate_titles(deck) ==
    LET dup == SelectSeq(deck, LAMBDA sl :
                   sl.title # <<>> /\ Len(TitleIndices(deck, sl.title)) > 1)
        idxs == { dup[n].index : n \in 1..Len(dup) }
    IN [ idx \in idxs |->
           LET mine == SelectSeq(dup, LAMBDA sl : sl.index = idx)
           IN [n \in 1..Len(mine) |->
                 DuplicateFinding(mine[n].title,
                                  Len(TitleIndices(deck, mine[n].title)))] ]

SlideResult(slide, diags, score, bucket_scores) ==
    [ index |-> slide.index, uuid |-> slide.uuid, title |-> slide.title,
      body |-> slide.body, metrics |-> slide.metrics,
      diagnostics |-> diags, score |-> score, bucket_scores |-> bucket_scores ]

\* lines 763-775: the buckets of cfg are recomputed over the final findings; a
\* bucket the slide's own patch added keeps its value.
RecomputeBuckets(bucket_scores, cfg, diags) ==
    LET buckets == Get(cfg, "buckets")
    IN [ name \in DOMAIN bucket_scores \cup DOMAIN buckets.d |->
           IF name \in DOMAIN buckets.d
           THEN BucketValueScore(buckets.d[name], diags)
           ELSE bucket_scores[name] ]
\* A variant that keeps the score of run_rules_on_slide after the duplicate-title
\* findings are added.
EvaluateSlideStaleScore(slide, cfg, duplicate_findings) ==
    LET WithDuplicates(r, diags) ==
            IF r.raised THEN [raised |-> TRUE, result |-> <<>>]
            ELSE [raised |-> FALSE,
                  result |-> SlideResult(slide, diags, r.score, r.bucket_scores)]
        Own(r) ==
            WithDuplicates(r, IF slide.index \in DOMAIN duplicate_findings
                              THEN SortFindings(r.diags \o duplicate_findings[slide.index])
                              ELSE r.diags)
    IN Own(run_rules_on_slide(slide, cfg))

\* One iteration of the loop of evaluate_all, lines 751-787:
\* [raised, result].
EvaluateSlide(slide, cfg, duplicate_findings) ==
    LET WithDuplicates(r, diags) ==
            IF r.raised THEN [raised |-> TRUE, result |-> <<>>]
            ELSE IF slide.index \notin DOMAIN duplicate_findings
            THEN [raised |-> FALSE,
                  result |-> SlideResult(slide, r.diags, r.score, r.bucket_scores)]
            ELSE IF BucketsRaise(Get(cfg, "buckets"), diags)
            THEN [raised |-> TRUE, result |-> <<>>]
            ELSE [raised |-> FALSE,
                  result |-> SlideResult(slide, diags, ScoreOf(diags),
                                         RecomputeBuckets(r.bucket_scores, cfg, diags))]
        Own(r) ==
            WithDuplicates(r, SortFindings(r.diags \o duplicate_findings[slide.index]))
    IN Own(run_rules_on_slide(slide, cfg))

\* evaluate_all: [raised, results].
\* A variant without the clone of line 689: each slide's patch is merged into
\* the one configuration object, so the slides after it are evaluated under it.
RECURSIVE SharedConfig(_, _, _)
SharedConfig(deck, cfg, n) ==
    IF n = 1 THEN cfg
    ELSE EffectiveFor(deck[n - 1], SharedConfig(deck, cfg, n - 1))

evaluate_all_shared(deck, cfg) ==
    LET duplicate_findings == check_duplicate_titles(deck)
        Collect(each) ==
            IF \E n \in 1..Len(deck) : each[n].raised
            THEN [raised |-> TRUE, results |-> <<>>]
            ELSE [raised |-> FALSE, results |-> [n \in 1..Len(deck) |-> each[n].result]]
    IN Collect([n \in 1..Len(deck) |->
                  EvaluateSlide(deck[n], SharedConfig(deck, cfg, n), duplicate_findings)])

evaluate_all(deck, cfg) ==
    LET duplicate_findings == check_duplicate_titles(deck)
        Collect(each) ==
            IF \E n \in 1..Len(deck) : each[n].raised
            THEN [raised |-> TRUE, results |-> <<>>]
            ELSE [raised |-> FALSE, results |-> [n \in 1..Len(deck) |-> each[n].result]]
    IN Collect([n \in 1..Len(deck) |-> EvaluateSlide(deck[n], cfg, duplicate_findings)])


(***************************************************************************)
(* The per-slide parser.                                                   *)
(***************************************************************************)
\* len() of a character or atom, and of a line.
CharLen(c) == IF c = Backtick THEN 1 ELSE Len(c)

RECURSIVE TextLen(_)
TextLen(s) == IF s = <<>> THEN 0 ELSE CharLen(Head(s)) + TextLen(Tail(s))

\* sub in s
Contains(s, sub) == IsInfix(sub, s)

\* s.find(sub) for a one-atom sub: the first index, or 0.
FindAtom(s, a) ==
    IF \E n \in 1..Len(s) : s[n] = a
    THEN CHOOSE n \in 1..Len(s) : s[n] = a /\ \A m \in 1..(n - 1) : s[m] # a
    ELSE 0

\* extract_frontmatter: the remaining text (the meta dict is not used by
\* parse_slides).
extract_frontmatter(slide_text) ==
    StripText(SubSeq(slide_text, FrontmatterEnd(slide_text), Len(slide_text)))

\* json.loads of a directive's payload: [ok, value].  The payloads of the model:
JsonPatchWeights == "{\"weights\":{\"title/required\":-5,\"content/too_short\":120}}"
JsonPatchBuckets == "{\"buckets\":{\"own\":[\"title/*\",\"title/required\"]}}"
JsonPatchStructure == "{\"buckets\":{\"own\":[\"structure/*\"]}}"
JsonPatchBadType == "{\"rules\":5}"
JsonNotObject == "[1,2]"
JsonMalformed == "{bad"

JsonLoads(content) ==
    LET Is(payload) == Len(content) = Len(payload) /\ content = Explode(payload)
    IN CASE Is(JsonPatchWeights) ->
                [ok |-> TRUE,
                 value |-> D([weights |-> D(("title/required" :> N(-5))
                                            @@ ("content/too_short" :> N(120)))])]
         [] Is(JsonPatchBuckets) ->
                [ok |-> TRUE,
                 value |-> D([buckets |-> D([own |->
                              L(<<Glob("title"), IdAtoms("title/required")>>)])])]
         [] Is(JsonPatchStructure) ->
                [ok |-> TRUE,
                 value |-> D([buckets |-> D([own |-> L(<<Glob("structure")>>)])])]
         [] Is(JsonPatchBadType) ->
                [ok |-> TRUE, value |-> D([rules |-> N(5)])]
         [] Is(JsonNotObject) ->
                [ok |-> TRUE, value |-> L(<<>>)]
         [] OTHER -> [ok |-> FALSE, value |-> Missing]

\* str.rstrip("-->"): the trailing characters '-' and '>' are removed.
RECURSIVE RStripArrow(_)
RStripArrow(s) ==
    IF s # <<>> /\ s[Len(s)] \in {"-", ">"}
    THEN RStripArrow(SubSeq(s, 1, Len(s) - 1))
    ELSE s

\* The text after "slidegauge:" in a directive line, lines 200-202; NoDirective
\* for any other line.
NoDirective == <<"no directive">>
CommentOpen == Explode("<!--")
DirectiveKey == Explode("slidegauge:")
DisableWord == Explode("disable")

DirectiveContent(ln) ==
    LET After(s, at) ==
            IF at > 0
            THEN Strip(RStripArrow(SubSeq(s, at + 11, Len(s))))
            ELSE NoDirective
        Content(s) ==
            IF StartsAt(s, CommentOpen, 1)
            THEN After(s, FindFrom(s, DirectiveKey, 1))
            ELSE NoDirective
    IN Content(Strip(Chars(ln)))

\* content.split(None, 1)[1] of a content that starts with "disable": the text
\* after the first run of whitespace; <<>> when there is none, and the unpacking
\* into two names then raises ValueError.
RECURSIVE DropWord(_)
DropWord(s) == IF s # <<>> /\ ~IsSpace(Head(s)) THEN DropWord(Tail(s)) ELSE s

DisableArgument(content) == Strip(DropWord(content))

\* One line of parse_inline_overrides on acc = [raised, disabled, rules].
OverrideStep(acc, ln) ==
    LET content == DirectiveContent(ln)
        patch == JsonLoads(content)
    IN IF acc.raised \/ content = NoDirective THEN acc
       ELSE IF StartsAt(content, DisableWord, 1)
       THEN IF DisableArgument(content) = <<>>
            THEN [acc EXCEPT !.raised = TRUE]
            ELSE [acc EXCEPT !.disabled = acc.disabled \cup {DisableArgument(content)}]
       ELSE IF patch.ok /\ IsDict(patch.value)
            THEN [acc EXCEPT !.rules = deep_merge(acc.rules, patch.value)]
            ELSE acc

RECURSIVE OverridesFrom(_, _)
OverridesFrom(acc, ls) ==
    IF ls = <<>> THEN acc ELSE OverridesFrom(OverrideStep(acc, Head(ls)), Tail(ls))

\* parse_inline_overrides: [raised, disabled, rules]; disabled is the set of the
\* identifiers named, each the run of atoms the directive gives.
parse_inline_overrides(ls) ==
    OverridesFrom([raised |-> FALSE, disabled |-> {}, rules |-> EmptyDict], Text(ls))


\* s.split(sub)[0]: the text before the first occurrence of sub.
RECURSIVE BeforeFirst(_, _)
BeforeFirst(s, sub) ==
    IF s = <<>> \/ StartsWith(s, sub) THEN <<>>
    ELSE <<Head(s)>> \o BeforeFirst(Tail(s), sub)

\* s.lstrip('#')
RECURSIVE LStripHash(_)
LStripHash(s) == IF s # <<>> /\ Head(s) = "#" THEN LStripHash(Tail(s)) ELSE s

\* The first index n >= k of ls whose stripped line starts with prefix, or 0.
RECURSIVE FirstHeading(_, _, _)
FirstHeading(ls, prefix, k) ==
    IF k > Len(ls) THEN 0
    ELSE IF StartsWith(Strip(ls[k]), prefix) THEN k
    ELSE FirstHeading(ls, prefix, k + 1)

\* Lines 235-259 (and 405-425): [text, index], index 0 when no line was taken.
FindTitle(text) ==
    LET TitleOf(ls) ==
            LET h1 == FirstHeading(ls, <<"#", " ">>, 1)
                t1 == IF h1 = 0 THEN <<>>
                      ELSE Strip(LStripHash(BeforeFirst(Strip(ls[h1]), <<"#", "#">>)))
                h2 == FirstHeading(ls, <<"#", "#", " ">>, 1)
                s2 == BeforeFirst(Strip(ls[h2]), <<"#", "#", "#">>)
            IN IF t1 # <<>> THEN [text |-> t1, index |-> h1]
               ELSE IF h2 # 0
               THEN [text |-> Strip(SubSeq(s2, 4, Len(s2))), index |-> h2]
               ELSE [text |-> <<>>, index |-> h1]
    IN TitleOf(Text(text))

\* re.match(r'^\s*[-*+]\s+', line)
IsBullet(ln) ==
    LET l == LStrip(ln) IN Len(l) >= 2 /\ l[1] \in {"-", "*", "+"} /\ IsSpace(l[2])

\* re.search(r'\b(exercise|practice)\b', line, re.IGNORECASE), line 323: the
\* word w at the index k of cs, in any case (low is cs in lower case), with no
\* word character on either side.
WordAt(cs, low, w, k) ==
    /\ StartsAt(low, w, k)
    /\ (k = 1 \/ ~IsWordChar(cs[k - 1]))
    /\ (k + Len(w) > Len(cs) \/ ~IsWordChar(cs[k + Len(w)]))

ExerciseWords == {Explode("exercise"), Explode("practice")}
ExerciseClass == Explode("class=\"exercise\"")

\* Lines 323-327: the word, or the class marker.
IsExerciseLine(ln) ==
    LET Found(cs, low) ==
            \/ \E k \in 1..Len(cs), w \in ExerciseWords : WordAt(cs, low, w, k)
            \/ FindFrom(cs, ExerciseClass, 1) # 0
        Line(cs) == Found(cs, LowerAll(cs))
    IN Line(Chars(ln))

\* The first index n >= k of s that holds the character a, or 0.
RECURSIVE FirstAt(_, _, _)
FirstAt(s, a, k) ==
    IF k > Len(s) THEN 0 ELSE IF s[k] = a THEN k ELSE FirstAt(s, a, k + 1)

\* re.findall(r'!\[(.*?)\]\((.*?)\)', line) from position k on.
RECURSIVE ImagesFrom(_, _)
ImagesFrom(cs, k) ==
    LET p == FindFrom(cs, <<"!", "[">>, k)
        q == IF p = 0 THEN 0 ELSE FindFrom(cs, <<"]", "(">>, p + 2)
        r == IF q = 0 THEN 0 ELSE FirstAt(cs, ")", q + 2)
    IN IF r = 0 THEN <<>>
       ELSE <<[alt |-> SubSeq(cs, p + 2, q - 1), url |-> SubSeq(cs, q + 2, r - 1)]>>
            \o ImagesFrom(cs, r + 1)

FindImages(ln, k) == ImagesFrom(Chars(ln), k)

\* int(s, 16) of the two characters a and b: <<n>>, or <<>> where it raises.  A
\* sign may stand before the digit, whitespace on either side of it.
HexDigits == Explode("0123456789abcdef")

HexVal(c) == (CHOOSE n \in 1..Len(HexDigits) : HexDigits[n] = c) - 1

IsHex(c) == \E n \in 1..Len(HexDigits) : HexDigits[n] = c

\* The whitespace int() skips: U+001C to U+001F are none in an ASCII string.
IsIntSpace(c) == IsSpace(c) /\ c \notin {"", "", "", ""}

HexPair(a, b) ==
    IF IsHex(a) /\ IsHex(b) THEN <<16 * HexVal(a) + HexVal(b)>>
    ELSE IF (IsIntSpace(a) \/ a = "+") /\ IsHex(b) THEN <<HexVal(b)>>
    ELSE IF a = "-" /\ IsHex(b) THEN <<0 - HexVal(b)>>
    ELSE IF IsHex(a) /\ IsIntSpace(b) THEN <<HexVal(a)>>
    ELSE <<>>

\* int(s) of a stripped string: <<n>>, or <<>> where it raises.  A sign may
\* stand first, an underscore between two digits; a value above 255 is held as
\* 256, which the range test of line 373 rejects as well.
IsDigit(c) == c \in {"0", "1", "2", "3", "4", "5", "6", "7", "8", "9"}

RECURSIVE DecDigits(_, _)
DecDigits(s, acc) ==
    IF s = <<>> THEN <<acc>>
    ELSE IF IsDigit(Head(s))
    THEN DecDigits(Tail(s), Min(256, 10 * acc + HexVal(Head(s))))
    ELSE IF Head(s) = "_" /\ Len(s) >= 2 /\ IsDigit(s[2])
    THEN DecDigits(Tail(s), acc)
    ELSE <<>>

DecInt(s) ==
    LET Signed(value) == IF value # <<>> /\ s[1] = "-" THEN <<0 - value[1]>> ELSE value
        Value(digits) ==
            IF digits # <<>> /\ IsDigit(Head(digits))
            THEN Signed(DecDigits(digits, 0))
            ELSE <<>>
    IN Value(IF s # <<>> /\ Head(s) \in {"+", "-"} THEN Tail(s) ELSE s)

\* s.split(","): the parts of s between the commas.
RECURSIVE SplitComma(_)
SplitComma(s) ==
    LET at == FirstAt(s, ",", 1)
    IN IF at = 0 THEN <<s>>
       ELSE <<SubSeq(s, 1, at - 1)>> \o SplitComma(SubSeq(s, at + 1, Len(s)))

\* parse_color, lines 357-378; <<>> is None.
parse_color(v) ==
    LET Channels(c) ==
            IF \E n \in 1..3 : c[n] = <<>> THEN <<>> ELSE c[1] \o c[2] \o c[3]
        InRange(rgb) ==
            IF rgb # <<>> /\ \A n \in 1..3 : 0 <= rgb[n] /\ rgb[n] <= 255
            THEN rgb
            ELSE <<>>
        Rgb(parts) ==
            IF Len(parts) < 3 THEN <<>>
            ELSE InRange(Channels([n \in 1..3 |-> DecInt(Strip(parts[n]))]))
        Color(s) ==
            IF StartsWith(s, <<"#">>) /\ Len(s) = 7
            THEN Channels([n \in 1..3 |-> HexPair(s[2 * n], s[2 * n + 1])])
            ELSE IF StartsWith(s, Explode("rgb(")) /\ s[Len(s)] = ")"
            THEN Rgb(SplitComma(SubSeq(s, 5, Len(s) - 1)))
            ELSE <<>>
    IN Color(LowerAll(Strip(Chars(v))))

\* The colors (channels -15 to 255, what parse_color gives) whose contrast is a
\* whole number of tenths as a fraction, and a double below the double of that
\* many tenths as lines 382-390 compute it: (1.0 + 0.05) / (lo + 0.05) with
\* lo = 0.2126*(r/255.0) + 0.7152*(g/255.0) + 0.0722*(b/255.0).  #1b0e87 is
\* 6.999999999999999 where the fraction is 7.  Of every other color the double
\* and the fraction lie on the same side of every tenth.
RoundsBelow ==
    {
      <<-15, -15, -15>>, <<-15, -13, -2>>, <<-14, -14, -14>>, <<-14, -13, 0>>,
      <<-13, -15, 19>>, <<-13, -13, -13>>, <<-13, -6, 25>>, <<-12, -14, -5>>,
      <<-12, -14, -3>>, <<-12, -12, -12>>, <<-12, -5, 26>>, <<-11, -15, 3>>,
      <<-11, -11, -11>>, <<-11, -10, 173>>, <<-11, -8, 41>>, <<-10, -14, 4>>,
      <<-10, -3, 28>>, <<-9, -14, 71>>, <<-9, -9, -9>>, <<-8, -14, -12>>,
      <<-8, -11, 65>>, <<-8, -10, -1>>, <<-7, -13, 14>>, <<-5, -15, -13>>,
      <<-4, -4, -4>>, <<-3, -12, 216>>, <<-3, 4, 35>>, <<0, -14, 174>>,
      <<0, -13, 108>>, <<4, -13, 1>>, <<5, -15, 75>>, <<5, -10, -5>>, <<6, -11, 3>>,
      <<7, -13, 77>>, <<10, -12, -13>>, <<11, 1, 46>>, <<13, -14, 45>>, <<14, -6, 84>>,
      <<15, -12, -3>>, <<17, -10, 49>>, <<18, -13, 64>>, <<20, -12, 7>>,
      <<25, -12, 17>>, <<27, 14, 135>>, <<28, -9, 95>>, <<31, -11, 53>>,
      <<31, -10, -13>>, <<44, 4, 184>>, <<55, -12, 77>>, <<61, -6, 233>>,
      <<62, -13, 12>>, <<62, -12, 196>>, <<67, -8, 17>>, <<75, 7, 63>>,
      <<92, -3, 112>>, <<103, -2, 158>>, <<109, -13, 161>>, <<123, 0, -9>>,
      <<134, 1, 37>>, <<140, -10, 40>>, <<141, 94, 243>>, <<148, -8, 194>>,
      <<151, -9, 86>>, <<151, 157, 5>>, <<201, 119, 113>>, <<206, 158, 124>> }

\* contrast_ratio(rgb) against white, as the exact fraction
\* 1.05 / (rel_lum(rgb) + 0.05); no color reaches a luminance above white's.
contrast_ratio(rgb) ==
    [some |-> TRUE,
     num |-> 2677500,
     den |-> 2126 * rgb[1] + 7152 * rgb[2] + 722 * rgb[3] + 127500,
     below |-> rgb \in RoundsBelow]

\* re.findall(r'color:\s*([^;\'"]+)', line, re.IGNORECASE): the values from
\* position k on.
RECURSIVE ValueEnd(_, _)
ValueEnd(ln, k) ==
    IF k <= Len(ln) /\ ln[k] \notin {";", "'", "\""} THEN ValueEnd(ln, k + 1) ELSE k

RECURSIVE SkipSpaces(_, _)
SkipSpaces(ln, k) == IF k <= Len(ln) /\ IsSpace(ln[k]) THEN SkipSpaces(ln, k + 1) ELSE k

\* The first index from k on where "color:" starts in any case, or 0.
ColorPrefix == Explode("color:")

RECURSIVE ColorKey(_, _)
ColorKey(cs, k) ==
    IF k + 5 > Len(cs) THEN 0
    ELSE IF \A n \in 1..6 : Lower(cs[k + n - 1]) = ColorPrefix[n] THEN k
    ELSE ColorKey(cs, k + 1)

\* A value is the run up to the next delimiter.  Where no character follows
\* the whitespace, the expression gives the last whitespace character back to
\* the group, and the value is that character.
RECURSIVE ColorsFrom(_, _)
ColorsFrom(cs, k) ==
    LET p == ColorKey(cs, k)
        from == SkipSpaces(cs, p + 6)
        to == ValueEnd(cs, from)
    IN IF p = 0 THEN <<>>
       ELSE IF to > from THEN <<SubSeq(cs, from, to - 1)>> \o ColorsFrom(cs, to)
       ELSE IF from > p + 6 THEN <<SubSeq(cs, from - 1, from - 1)>> \o ColorsFrom(cs, from)
       ELSE ColorsFrom(cs, p + 1)

FindColors(ln, k) == ColorsFrom(Chars(ln), k)

\* Lines 335-340: the values parse_color reads as a color.
RECURSIVE ColorEntries(_)
ColorEntries(vals) ==
    LET Entry(color_val, rgb) ==
            IF rgb = <<>> THEN <<>>
            ELSE <<[raw |-> color_val, rgb |-> rgb, contrast |-> contrast_ratio(rgb)]>>
    IN IF vals = <<>> THEN <<>>
       ELSE Entry(Head(vals), parse_color(Head(vals))) \o ColorEntries(Tail(vals))

ColorsOf(ln) == ColorEntries(FindColors(ln, 1))

\* The index after "http://" or "https://" where it starts at p, or 0.
HttpPrefix == Explode("http://")
HttpsPrefix == Explode("https://")

UrlAt(cs, p) ==
    IF StartsAt(cs, HttpsPrefix, p) THEN p + 8
    ELSE IF StartsAt(cs, HttpPrefix, p) THEN p + 7
    ELSE 0

\* Lines 343-346: re.search(r'https?://[^\s\)]+', line), and no
\* re.search(r'\[([^\]]*)\]\(https?://[^\)]+\)', line).
HasBareUrl(ln) ==
    LET Url(cs) ==
            \E p \in 1..Len(cs) :
                /\ UrlAt(cs, p) # 0 /\ UrlAt(cs, p) <= Len(cs)
                /\ ~IsSpace(cs[UrlAt(cs, p)]) /\ cs[UrlAt(cs, p)] # ")"
        Link(cs) ==
            \E c \in 2..(Len(cs) - 1) :
                /\ cs[c] = "]" /\ cs[c + 1] = "("
                /\ UrlAt(cs, c + 2) # 0
                /\ FirstAt(cs, ")", UrlAt(cs, c + 2)) > UrlAt(cs, c + 2)
                /\ \E o \in 1..(c - 1) :
                      cs[o] = "[" /\ \A m \in (o + 1)..(c - 1) : cs[m] # "]"
        Bare(cs) == Url(cs) /\ ~Link(cs)
    IN Bare(Chars(ln))

\* a < b for two contrasts; contrast_ratio gives every contrast the same
\* numerator, and the one of the larger denominator is then the smaller.
ContrastLess(a, b) ==
    IF (a.den < 0) # (b.den < 0) THEN a.den < 0
    ELSE IF a.num = b.num
    THEN a.den > b.den \/ (a.den = b.den /\ a.below /\ ~b.below)
    ELSE a.num * b.den < b.num * a.den

RECURSIVE MinContrast(_)
MinContrast(cs) ==
    IF Len(cs) = 1 THEN cs[1].contrast
    ELSE LET rest == MinContrast(Tail(cs))
         IN IF ContrastLess(rest, cs[1].contrast) THEN rest ELSE cs[1].contrast

\* One iteration of the content loop of scan_slide, lines 267-346, on
\* acc = [in_code_block, code_fence, code_content, m]; code_content is the number
\* of lines collected.  ScanLine is the iteration on the characters of the line.
ChartMarker == Explode("mermaid")

ScanLine(acc, ln, idx, title_line_index, cfg) ==
    LET stripped == Strip(ln)
        m == acc.m
        is_table_row == Contains(ln, <<"|", " ">>) /\ Contains(ln, <<" ", "|", " ">>)
        is_chart == FindFrom(LowerAll(stripped), ChartMarker, 1) # 0
        adjusted_chars ==
            IF is_table_row THEN Get3(cfg, "rules", "special", "table_char_eq").n
            ELSE IF is_chart THEN Get3(cfg, "rules", "special", "chart_char_eq").n
            ELSE Len(ln)
    IN IF ~acc.in_code_block
          /\ (StartsWith(stripped, Backticks) \/ StartsWith(stripped, Tildes))
       THEN [acc EXCEPT !.in_code_block = TRUE,
                        !.code_fence = SubSeq(stripped, 1, 3),
                        !.code_content = 0]
       ELSE IF acc.in_code_block /\ StartsWith(stripped, acc.code_fence)
       THEN [acc EXCEPT !.in_code_block = FALSE,
                        !.code_content = 0,
                        !.m.code_blocks =
                            Append(m.code_blocks,
                                   [lines |-> acc.code_content,
                                    lang |-> Strip(SubSeq(stripped, 4, Len(stripped)))])]
       ELSE IF acc.in_code_block
       THEN [acc EXCEPT !.code_content = acc.code_content + 1]
       ELSE IF idx = title_line_index THEN acc
       ELSE [acc EXCEPT
               !.m = [m EXCEPT
                 !.content_chars = m.content_chars + Len(ln),
                 !.content_chars_adjusted = m.content_chars_adjusted + adjusted_chars,
                 !.bullets = m.bullets + (IF IsBullet(ln) THEN 1 ELSE 0),
                 !.has_table = m.has_table \/ is_table_row \/ Contains(ln, <<"|">>),
                 !.has_chart = m.has_chart \/ is_chart,
                 !.is_exercise = m.is_exercise \/ IsExerciseLine(ln),
                 !.images = m.images \o FindImages(ln, 1),
                 !.colors = m.colors \o ColorsOf(ln),
                 !.bare_urls = m.bare_urls + (IF HasBareUrl(ln) THEN 1 ELSE 0)]]

ScanStep(acc, ln, idx, title_line_index, cfg) ==
    ScanLine(acc, Chars(ln), idx, title_line_index, cfg)

RECURSIVE ScanFrom(_, _, _, _, _)
ScanFrom(acc, ls, k, title_line_index, cfg) ==
    IF k > Len(ls) THEN acc
    ELSE ScanFrom(ScanStep(acc, ls[k], k, title_line_index, cfg),
                  ls, k + 1, title_line_index, cfg)

scan_slide(text, cfg) ==
    LET title == FindTitle(text)
        metrics == [ title_length |-> TextLen(title.text),
                     content_chars |-> 0,
                     content_chars_adjusted |-> 0,
                     bullets |-> 0,
                     lines |-> Len(text),
                     code_blocks |-> <<>>,
                     has_table |-> FALSE,
                     has_chart |-> FALSE,
                     is_exercise |-> FALSE,
                     images |-> <<>>,
                     colors |-> <<>>,
                     min_contrast |-> NoContrast,
                     unique_colors |-> 0,
                     bare_urls |-> 0 ]
        scanned == ScanFrom([in_code_block |-> FALSE, code_fence |-> NoFence,
                             code_content |-> 0, m |-> metrics],
                            text, 1, title.index, cfg).m
    IN IF scanned.colors = <<>> THEN scanned
       ELSE [scanned EXCEPT
               !.min_contrast = MinContrast(scanned.colors),
               !.unique_colors =
                   Cardinality({scanned.colors[n].rgb : n \in 1..Len(scanned.colors)})]

\* One slide of parse_slides, lines 397-439: [raised, slide].  The identity
\* uuid5_of(content.strip()) is the content itself: a hash without collisions.
ParseSlide(index, slide_text) ==
    LET Build(content, overrides) ==
            [ raised |-> overrides.raised,
              slide |-> [ index |-> index,
                          uuid |-> StripText(content),
                          title |-> FindTitle(content).text,
                          body |-> content,
                          metrics |-> scan_slide(content, DEFAULTS),
                          overrides |-> [disabled |-> overrides.disabled,
                                         rules |-> overrides.rules] ] ]
        Content(content) == Build(content, parse_inline_overrides(content))
    IN Content(extract_frontmatter(Text(slide_text)))

\* parse_slides(markdown), markdown given as markdown.split('\n'):
\* [raised, slides], the index of a slide counted from 0.
parse_slides(markdown) ==
    LET Collect(each) ==
            IF \E n \in 1..Len(each) : each[n].raised
            THEN [raised |-> TRUE, slides |-> <<>>]
            ELSE [raised |-> FALSE, slides |-> [n \in 1..Len(each) |-> each[n].slide]]
        Each(slide_texts) ==
            Collect([n \in 1..Len(slide_texts) |-> ParseSlide(n - 1, slide_texts[n])])
    IN Each(split_slides(Text(markdown)))


(***************************************************************************)
(* The cache and the analyze operation.  The cache file is a function from *)
(* the identities it holds to their entries; NoCache is the missing file,  *)
(* which load_cache reads as {}.                                           *)
(***************************************************************************)
\* A variant that reads every file as the except branch does: as {}.
load_cache_unreadable(file) == NoCache

load_cache(file) == file
\* A variant that caches the result as it was before the duplicate-title pass.
CacheEntryBeforeDuplicates(result) ==
    LET own == SelectSeq(result.diagnostics,
                         LAMBDA f : f.rule # "structure/duplicate_titles")
    IN [ diagnostics |-> own, score |-> ScoreOf(own),
         bucket_scores |-> result.bucket_scores ]

\* The entry lines 978-982 write for a result.
CacheEntry(result) ==
    [ diagnostics |-> result.diagnostics,
      score |-> result.score,
      bucket_scores |-> result.bucket_scores ]

\* The length of the text save_cache writes (line 808):
\* json.dump(data, f, sort_keys=True, separators=(',',':')), ASCII only.
RECURSIVE Digits(_)
Digits(n) == IF n < 10 THEN 1 ELSE 1 + Digits(n \div 10)

\* str(n) of an integer.
DecLen(n) == IF n < 0 THEN 1 + Digits(-n) ELSE Digits(n)

\* f"{x:.2f}" of the fraction num/den, and of a number of tenths.
FixedLen(num, den) ==
    LET n == IF num < 0 THEN -num ELSE num
        d == IF den < 0 THEN -den ELSE den
        hundredths == (200 * n + d) \div (2 * d)
    IN (IF (num < 0) # (den < 0) THEN 1 ELSE 0) + Digits(hundredths \div 100) + 3

PlainAscii ==
    LET all == Explode(" !#$%&'()*+,-./0123456789:;<=>?@[]^_{|}~")
                 \o Explode(UpperCase) \o Explode(LowerCase) \o <<Backtick>>
    IN {all[n] : n \in 1..Len(all)}

\* One character of a JSON string: itself from the space to the tilde, a
\* two-character escape, or \uXXXX (the delete character U+007F too).
EscLen(c) ==
    IF c \in PlainAscii THEN 1
    ELSE IF c \in {"\"", "\\", "\n", "\r", "\t", "\f", ""} THEN 2
    ELSE 6

RECURSIVE EscStrLen(_)
EscStrLen(cs) == IF cs = <<>> THEN 0 ELSE EscLen(Head(cs)) + EscStrLen(Tail(cs))

RECURSIVE SumLen(_, _)
SumLen(Op(_), xs) == IF xs = <<>> THEN 0 ELSE Op(Head(xs)) + SumLen(Op, Tail(xs))

\* The message as the rules format it (lines 490-673 and 738).
MessageLen(f) ==
    LET m == f.message
        Filled(k) == Len(m.fmt) - 2 * k
    IN CASE f.rule = "color/low_contrast" ->
              Filled(2) + FixedLen(m.nums[1], m.nums[2]) + FixedLen(m.nums[3], 10)
         [] f.rule = "code/too_long" ->
              Len(m.strs) * Filled(4) + 2 * (Len(m.strs) - 1)
                  + SumLen(DecLen, m.nums) + SumLen(EscStrLen, m.strs)
         [] OTHER ->
              Filled(Len(m.nums) + Len(m.strs))
                  + SumLen(DecLen, m.nums) + SumLen(EscStrLen, m.strs)

\* vars(f): {"deduction":..,"message":"..","patch":[],"rule":"..","severity":".."}
FindingLen(f) ==
    Len("{\"deduction\":") + DecLen(f.deduction)
        + Len(",\"message\":\"") + MessageLen(f)
        + Len("\",\"patch\":[],\"rule\":\"") + Len(f.rule)
        + Len("\",\"severity\":\"") + Len(f.severity) + Len("\"}")

\* A list or an object of n members of the lengths given: the brackets and the
\* commas between the members.
Enclosed(n, lengths) == 2 + lengths + (IF n = 0 THEN 0 ELSE n - 1)

RECURSIVE SumOver(_, _)
SumOver(Op(_), set) ==
    IF set = {} THEN 0
    ELSE LET x == CHOOSE y \in set : TRUE IN Op(x) + SumOver(Op, set \ {x})

EntryLen(entry) ==
    LET Bucket(name) == Len(name) + 3 + DecLen(entry.bucket_scores[name])
    IN Len("{\"bucket_scores\":")
         + Enclosed(Cardinality(DOMAIN entry.bucket_scores),
                    SumOver(Bucket, DOMAIN entry.bucket_scores))
         + Len(",\"diagnostics\":")
         + Enclosed(Len(entry.diagnostics), SumLen(FindingLen, entry.diagnostics))
         + Len(",\"score\":") + DecLen(entry.score) + Len("}")

\* Every key is a uuid, "uuid5:" and 36 characters (line 85) between its
\* quotes, and a colon.
JsonLen(cache) ==
    LET Member(uuid) == 45 + EntryLen(cache[uuid])
    IN Enclosed(Cardinality(DOMAIN cache), SumOver(Member, DOMAIN cache))

\* get_cached_results: uuid -> the result rebuilt from the entry, on the slides
\* the cache holds.  Two slides of one identity share the key, and the later one
\* overwrites the earlier.
LastWith(deck, uuid) ==
    deck[CHOOSE n \in 1..Len(deck) :
            deck[n].uuid = uuid /\ \A m \in (n + 1)..Len(deck) : deck[m].uuid # uuid]

get_cached_results(deck, cache) ==
    [ uuid \in { deck[n].uuid : n \in 1..Len(deck) } \cap DOMAIN cache |->
        SlideResult(LastWith(deck, uuid), cache[uuid].diagnostics,
                    cache[uuid].score, cache[uuid].bucket_scores) ]

\* The result of the last slide of results that has the identity (line 974).
ResultFor(results, uuid) ==
    results[CHOOSE n \in 1..Len(results) :
              results[n].uuid = uuid /\ \A m \in (n + 1)..Len(results) : results[m].uuid # uuid]

\* One slide of the report, to_json lines 838-846.
ReportSlide(r) ==
    [ uuid |-> r.uuid, title |-> r.title, body |-> r.body, metrics |-> r.metrics,
      diagnostics |-> r.diagnostics, score |-> r.score,
      bucket_scores |-> r.bucket_scores ]

RECURSIVE SumOf(_)
SumOf(ns) == IF ns = <<>> THEN 0 ELSE Head(ns) + SumOf(Tail(ns))

RECURSIVE MinOf(_)
MinOf(ns) == IF Len(ns) = 1 THEN ns[1] ELSE Min(Head(ns), MinOf(Tail(ns)))

RECURSIVE MaxOf(_)
MaxOf(ns) == IF Len(ns) = 1 THEN ns[1] ELSE Max(Head(ns), MaxOf(Tail(ns)))

\* An average sum/count as the pair; the average of nothing is the default.
Average(ns, default) ==
    IF ns = <<>> THEN [sum |-> default, count |-> 1]
    ELSE [sum |-> SumOf(ns), count |-> Len(ns)]

\* round(avg_score, 1) in tenths.  With at most three slides 10 * sum / count is
\* never halfway between two integers.
RoundedTenths(ns) ==
    IF ns = <<>> THEN 0 ELSE (20 * SumOf(ns) + Len(ns)) \div (2 * Len(ns))

\* The keys `for bucket in effective_cfg["buckets"]` gives (line 999): the keys
\* of a dict, the elements of a list, the characters of a string.
BucketNames(buckets) ==
    CASE IsDict(buckets) -> DOMAIN buckets.d
      [] buckets.t = "list" -> { Joined(buckets.l[n]) : n \in 1..Len(buckets.l) }
      [] buckets.t = "str" -> { SubSeq(buckets.s, n, n) : n \in 1..Len(buckets.s) }
      [] OTHER -> {}

\* Lines 995-1014.
Summary(total_slides, slide_results, effective_cfg) ==
    LET scores == [n \in 1..Len(slide_results) |-> slide_results[n].score]
        threshold == Get(effective_cfg, "threshold")
        buckets == Get(effective_cfg, "buckets")
    IN [ total_slides |-> total_slides,
         avg_score |-> RoundedTenths(scores),
         min_score |-> IF scores = <<>> THEN 0 ELSE MinOf(scores),
         max_score |-> IF scores = <<>> THEN 0 ELSE MaxOf(scores),
         threshold |-> threshold,
         bucket_scores |->
             [ bucket \in BucketNames(buckets) |->
                 Average([n \in 1..Len(slide_results) |->
                            IF bucket \in DOMAIN slide_results[n].bucket_scores
                            THEN slide_results[n].bucket_scores[bucket]
                            ELSE 100], 100) ],
         passing |-> Cardinality({n \in 1..Len(scores) : scores[n] >= threshold.n}),
         total_issues |->
             SumOf([n \in 1..Len(slide_results) |-> Len(slide_results[n].diagnostics)]) ]

\* The summary raises on buckets it cannot iterate (a number, null), and on a
\* threshold that is no number once there is a score to compare with it.
SummaryRaises(slide_results, effective_cfg) ==
    \/ Get(effective_cfg, "buckets").t \notin {"dict", "list", "str"}
    \/ slide_results # <<>> /\ ~IsNum(Get(effective_cfg, "threshold"))

Failure(error) == [ok |-> FALSE, error |-> error]

\* str(e): an error message is a sequence of its parts.
UnpackError == <<"not enough values to unpack (expected 2, got 1)">>
AnalysisError == <<"exception in analysis">>
\* A variant that evaluates every slide, cached or not.
UncachedAll(deck, cached_results) == deck

\* The slides cached_results has nothing for (line 969).
Uncached(deck, cached_results) ==
    SelectSeq(deck, LAMBDA sl : sl.uuid \notin DOMAIN cached_results)

\* request.get(key, default) on the members of a request object.
RequestGet(request, key, default) ==
    IF key \in DOMAIN request THEN request[key] ELSE default

\* The document '': ''.split('\n') is one empty line.
EmptyDocument == << <<>> >>

\* handle_analyze(request) on the cache file: the response, the file it leaves,
\* whether it called save_cache, and the slides it gave to evaluate_all.
handle_analyze(request, file) ==
    LET document == RequestGet(request, "document", EmptyDocument)
        config == RequestGet(request, "config", EmptyDict)
        effective_cfg == deep_merge(DEFAULTS, config)
        cache == load_cache(file)
        \* lines 971-1029, from the results of evaluate_all on
        Respond(deck, cached_results, uncached_slides, new_results) ==
            LET fresh == { uncached_slides[n].uuid : n \in 1..Len(uncached_slides) }
                new_cache ==
                    [ uuid \in DOMAIN cache \cup fresh |->
                        IF uuid \in fresh
                        THEN CacheEntry(ResultFor(new_results.results, uuid))
                        ELSE cache[uuid] ]
                all_results ==
                    [ n \in 1..Len(deck) |->
                        IF deck[n].uuid \in fresh
                        THEN ResultFor(new_results.results, deck[n].uuid)
                        ELSE cached_results[deck[n].uuid] ]
            IN IF uncached_slides # <<>> /\ new_results.raised
               THEN [response |-> Failure(AnalysisError), file |-> file, saved |-> FALSE,
                     evaluated |-> uncached_slides, results |-> <<>>]
               ELSE IF SummaryRaises(all_results, effective_cfg)
               THEN [response |-> Failure(AnalysisError),
                     file |-> IF uncached_slides # <<>> THEN new_cache ELSE file,
                     saved |-> uncached_slides # <<>>,
                     evaluated |-> uncached_slides, results |-> <<>>]
               ELSE [response |->
                        [ ok |-> TRUE,
                          slides |-> [n \in 1..Len(all_results) |->
                                        ReportSlide(all_results[n])],
                          summary |-> Summary(Len(deck), all_results, effective_cfg) ],
                     file |-> IF uncached_slides # <<>> THEN new_cache ELSE file,
                     saved |-> uncached_slides # <<>>,
                     evaluated |-> uncached_slides, results |-> all_results]
        \* lines 968-970
        Evaluate(deck, cached_results, uncached_slides) ==
            Respond(deck, cached_results, uncached_slides,
                    evaluate_all(uncached_slides, effective_cfg))
        \* lines 964-969
        Lookup(deck, cached_results) ==
            Evaluate(deck, cached_results, Uncached(deck, cached_results))
        \* lines 961-966
        Parsed(parsed) ==
            IF parsed.raised
            THEN [response |-> Failure(UnpackError), file |-> file, saved |-> FALSE,
                  evaluated |-> <<>>, results |-> <<>>]
            ELSE Lookup(parsed.slides, get_cached_results(parsed.slides, cache))
    IN IF ~IsDict(config)
       THEN [response |-> Failure(AnalysisError), file |-> file, saved |-> FALSE,
             evaluated |-> <<>>, results |-> <<>>]
       ELSE Parsed(parse_slides(document))

\* to_sarif, lines 853-891: one result per finding, its line the slide's
\* position in the deck.
SarifLevel(severity) ==
    CASE severity = "error" -> "error"
      [] severity = "warning" -> "warning"
      [] OTHER -> "note"

RECURSIVE to_sarif(_)
to_sarif(slide_results) ==
    IF slide_results = <<>> THEN <<>>
    ELSE LET Results(r) ==
                 [ n \in 1..Len(r.diagnostics) |->
                     [ ruleId |-> r.diagnostics[n].rule,
                       level |-> SarifLevel(r.diagnostics[n].severity),
                       message |-> r.diagnostics[n].message,
                       startLine |-> r.index + 1 ] ]
         IN Results(Head(slide_results)) \o to_sarif(Tail(slide_results))

\* to_text, lines 893-915: one line per slide and the summary line.
to_text(slide_results, summary) ==
    [ slides |->
        [ n \in 1..Len(slide_results) |->
            [ slide |-> slide_results[n].index + 1,
              passed |-> slide_results[n].score >= summary.threshold.n,
              score |-> slide_results[n].score,
              issues |-> [ k \in 1..Len(slide_results[n].diagnostics) |->
                             [ rule |-> slide_results[n].diagnostics[k].rule,
                               deduction |-> slide_results[n].diagnostics[k].deduction ] ] ] ],
      summary |->
        [ bucket_scores |-> summary.bucket_scores,
          avg_score |-> summary.avg_score,
          passing |-> Cardinality({ n \in 1..Len(slide_results) :
                                      slide_results[n].score >= summary.threshold.n }),
          of |-> Len(slide_results),
          threshold |-> summary.threshold ] ]

\* --threshold, lines 1202-1203: the threshold given replaces the one of the
\* configuration.
ThresholdOverride(config, threshold) ==
    IF threshold = Missing THEN config
    ELSE D(("threshold" :> threshold) @@ config.d)

\* main(), lines 1165-1302, without --stdio and --selftest, on the cache file
\* beside the input: args holds the document read, the JSON of the --config
\* file (EmptyDict without one), --threshold (Missing without one) and the
\* output format.  The run is recorded as handle_analyze records a request:
\* the response holds the slides and the summary computed, the output written
\* and the exit code; ok is FALSE where the run ends in an error message.
main(args, file) ==
    LET cache == load_cache(file)
        Error(prefix, error, new_file, saved, uncached_slides) ==
            [response |-> [ok |-> FALSE, error |-> <<prefix>> \o error, code |-> 2],
             file |-> new_file, saved |-> saved,
             evaluated |-> uncached_slides, results |-> <<>>]
        \* lines 1281-1287
        Output(all_results, summary) ==
            CASE args.format = "sarif" -> [results |-> to_sarif(all_results)]
              [] args.format = "text" -> to_text(all_results, summary)
              [] OTHER ->
                  [ slides |-> [n \in 1..Len(all_results) |-> ReportSlide(all_results[n])],
                    summary |-> summary ]
        \* lines 1253-1298: avg_score >= threshold, the average of no score 0;
        \* the comparison raises, the output written, on a threshold that is
        \* no number.
        Report(all_results, summary, new_file, saved, uncached_slides) ==
            [response |->
                [ ok |-> IsNum(summary.threshold),
                  slides |-> [n \in 1..Len(all_results) |-> ReportSlide(all_results[n])],
                  summary |-> summary,
                  output |-> Output(all_results, summary),
                  error |-> IF IsNum(summary.threshold) THEN <<>>
                            ELSE <<"Analysis error: ">> \o AnalysisError,
                  code |-> IF ~IsNum(summary.threshold) THEN 2
                           ELSE IF all_results = <<>>
                           THEN (IF 0 >= summary.threshold.n THEN 0 ELSE 1)
                           ELSE IF SumOf([n \in 1..Len(all_results) |-> all_results[n].score])
                                   >= summary.threshold.n * Len(all_results)
                           THEN 0 ELSE 1 ],
             file |-> new_file, saved |-> saved,
             evaluated |-> uncached_slides, results |-> all_results]
        \* lines 1229-1272, from the results of evaluate_all on
        Respond(config, deck, cached_results, uncached_slides, new_results) ==
            LET fresh == { uncached_slides[n].uuid : n \in 1..Len(uncached_slides) }
                new_cache ==
                    [ uuid \in DOMAIN cache \cup fresh |->
                        IF uuid \in fresh
                        THEN CacheEntry(ResultFor(new_results.results, uuid))
                        ELSE cache[uuid] ]
                all_results ==
                    [ n \in 1..Len(deck) |->
                        IF deck[n].uuid \in fresh
                        THEN ResultFor(new_results.results, deck[n].uuid)
                        ELSE cached_results[deck[n].uuid] ]
            IN IF uncached_slides # <<>> /\ new_results.raised
               THEN Error("Analysis error: ", AnalysisError, file, FALSE, uncached_slides)
               ELSE IF SummaryRaises(all_results, config)
               THEN Error("Analysis error: ", AnalysisError,
                          IF uncached_slides # <<>> THEN new_cache ELSE file,
                          uncached_slides # <<>>, uncached_slides)
               ELSE Report(all_results, Summary(Len(deck), all_results, config),
                           IF uncached_slides # <<>> THEN new_cache ELSE file,
                           uncached_slides # <<>>, uncached_slides)
        \* lines 1227-1229
        Evaluate(config, deck, cached_results, uncached_slides) ==
            Respond(config, deck, cached_results, uncached_slides,
                    evaluate_all(uncached_slides, config))
        \* lines 1224-1227
        Lookup(config, deck, cached_results) ==
            Evaluate(config, deck, cached_results, Uncached(deck, cached_results))
        \* lines 1219-1224
        Parsed(config, parsed) ==
            IF parsed.raised
            THEN Error("Analysis error: ", UnpackError, file, FALSE, <<>>)
            ELSE Lookup(config, parsed.slides, get_cached_results(parsed.slides, cache))
        \* lines 1202-1219
        Loaded(config) ==
            Parsed(ThresholdOverride(config, args.threshold), parse_slides(args.document))
    IN IF ~IsDict(args.config)
       THEN Error("Error loading config: ", AnalysisError, file, FALSE, <<>>)
       ELSE Loaded(deep_merge(DEFAULTS, args.config))


(***************************************************************************)
(* The analyze operation as a state machine: a sequence of analyze         *)
(* requests against one cache file, each request a document and a          *)
(* configuration patch.                                                    *)
(***************************************************************************)
MaxSlides == 2

\* Slide bodies: A and B share the title T, C has no title.
SlideA == << <<"#", " ", "T">>, <<"a", "b", "c">> >>
SlideB == << <<"#", " ", "T">>, <<"-", " ", "x">> >>
SlideC == << <<"n", "o">> >>

\* A slide with no title whose second line is the directive
\* <!-- slidegauge: payload -->
DirectiveSlide(payload) ==
    Text(<< <<"n", "o">>,
            <<"<!--", " ", "slidegauge:", " ">> \o payload \o <<" ", "-->">> >>)

SlideMalformed == DirectiveSlide(<<JsonMalformed>>)
SlideNotObject == DirectiveSlide(<<JsonNotObject>>)
SlideBadType == DirectiveSlide(<<JsonPatchBadType>>)
SlidePatch == DirectiveSlide(<<JsonPatchWeights>>)
SlideDisable == DirectiveSlide(<<"disable", " ", "title/required">>)
SlideBareDisable == DirectiveSlide(<<"disable">>)

\* A slide with the title T whose second line is the directive.
TitledDirectiveSlide(payload) ==
    Text(<< <<"#", " ", "T">>,
            <<"<!--", " ", "slidegauge:", " ">> \o payload \o <<" ", "-->">> >>)

SlideDisableDuplicates ==
    TitledDirectiveSlide(<<"disable", " ", "structure/duplicate_titles">>)

\* A slide titled T whose patch adds the bucket own = ["structure/*"].
SlideOwnBucket == TitledDirectiveSlide(<<JsonPatchStructure>>)

PlainSlides == {SlideA, SlideB, SlideC}
DirectiveSlides ==
    {SlideMalformed, SlideNotObject, SlideBadType, SlidePatch, SlideDisable,
     SlideBareDisable}

\* The document whose slides are the bodies, a '---' line between two of them.
RECURSIVE JoinSlides(_)
JoinSlides(bodies) ==
    IF Len(bodies) = 1 THEN bodies[1]
    ELSE bodies[1] \o <<Separator>> \o JoinSlides(Tail(bodies))

Decks(bodies, n) == { JoinSlides(bs) : bs \in UNION { [1..m -> bodies] : m \in 1..n } }

DocsOf(cat) ==
    CASE cat = "plain" -> Decks(PlainSlides, MaxSlides)
      [] cat = "directives" -> Decks(DirectiveSlides, 1) \cup Decks({SlideC}, MaxSlides)
      [] cat = "disable" ->
            Decks({SlideA, SlideDisable, SlideDisableDuplicates}, MaxSlides)
      [] cat = "patches" -> Decks({SlideA, SlideOwnBucket, SlidePatch}, MaxSlides)
      [] cat = "fixed" -> Decks(PlainSlides, MaxSlides)

\* Configuration patches: none, and weights that take one finding past 100 and
\* make another negative.
CfgNone == EmptyDict
CfgHeavy == D([weights |-> D(("title/required" :> N(120)) @@ ("content/too_short" :> N(-5)))])
Configs == {CfgNone, CfgHeavy}

ConfigsOf(cat) ==
    CASE cat \in {"plain", "directives", "disable", "patches"} -> Configs
      [] cat = "fixed" -> {CfgNone}

AnalyzeRequest(document, config) ==
    [op |-> "analyze", document |-> document, config |-> config]

Uuids(deck) == { deck[n].uuid : n \in 1..Len(deck) }

\* The runs of main(): documents of the catalogue, among them one of two slides
\* of the same content and one whose directive fails; the configuration file,
\* the threshold and the format of the output.
MainRequest(document, options) ==
    [op |-> "main", document |-> document, config |-> options.config,
     threshold |-> options.threshold, format |-> options.format]

MainDocs(cat) ==
    CASE cat \in {"plain", "fixed"} -> {JoinSlides(<<SlideB, SlideB>>)}
      [] cat = "directives" -> {SlideBareDisable, JoinSlides(<<SlideC, SlideC>>)}
      [] cat = "disable" -> {JoinSlides(<<SlideA, SlideDisableDuplicates>>)}
      [] cat = "patches" -> {JoinSlides(<<SlidePatch, SlideA>>)}

MainOptions(cat) ==
    { o \in { [config |-> CfgNone, threshold |-> Missing, format |-> "json"],
              [config |-> CfgHeavy, threshold |-> Missing, format |-> "sarif"],
              [config |-> CfgNone, threshold |-> N(100), format |-> "text"] } :
        o.config \in ConfigsOf(cat) }

InitMain ==
    /\ catalogue = "plain" /\ cache_file = NoCache /\ last_request = NoRequest
    /\ last_response = NoResponse /\ before = NoCache /\ evaluated = {} /\ rerun = FALSE
    /\ last_results = <<>>
    /\ SplitIdle /\ ConcIdle /\ StdioIdle /\ SlideIdle

InitDirectives ==
    /\ catalogue = "directives" /\ cache_file = NoCache /\ last_request = NoRequest
    /\ last_response = NoResponse /\ before = NoCache /\ evaluated = {} /\ rerun = FALSE
    /\ last_results = <<>>
    /\ SplitIdle /\ ConcIdle /\ StdioIdle /\ SlideIdle

InitDisable ==
    /\ catalogue = "disable" /\ cache_file = NoCache /\ last_request = NoRequest
    /\ last_response = NoResponse /\ before = NoCache /\ evaluated = {} /\ rerun = FALSE
    /\ last_results = <<>>
    /\ SplitIdle /\ ConcIdle /\ StdioIdle /\ SlideIdle

\* Every request under the one configuration DEFAULTS.
InitFixed ==
    /\ catalogue = "fixed" /\ cache_file = NoCache /\ last_request = NoRequest
    /\ last_response = NoResponse /\ before = NoCache /\ evaluated = {} /\ rerun = FALSE
    /\ last_results = <<>>
    /\ SplitIdle /\ ConcIdle /\ StdioIdle /\ SlideIdle

InitPatches ==
    /\ catalogue = "patches" /\ cache_file = NoCache /\ last_request = NoRequest
    /\ last_response = NoResponse /\ before = NoCache /\ evaluated = {} /\ rerun = FALSE
    /\ last_results = <<>>
    /\ SplitIdle /\ ConcIdle /\ StdioIdle /\ SlideIdle

\* One run of handle_analyze, reading and writing the cache file.
Analyze ==
    /\ catalogue # "none"
    /\ \E document \in DocsOf(catalogue), config \in ConfigsOf(catalogue) :
         LET req == AnalyzeRequest(document, config)
             Done(out) ==
                 /\ last_request' = req
                 /\ last_response' = out.response
                 /\ cache_file' = out.file
                 /\ before' = cache_file
                 /\ evaluated' = Uuids(out.evaluated)
                 /\ rerun' = (req = last_request)
                 /\ last_results' = out.results
         IN Done(handle_analyze(req, cache_file))
    /\ UNCHANGED <<catalogue, splitVars, concVars, stdioVars, slideVars>>

\* One run of main(), reading and writing the same cache file.
Main ==
    /\ catalogue # "none"
    /\ \E document \in MainDocs(catalogue), options \in MainOptions(catalogue) :
         LET req == MainRequest(document, options)
             Done(out) ==
                 /\ last_request' = req
                 /\ last_response' = out.response
                 /\ cache_file' = out.file
                 /\ before' = cache_file
                 /\ evaluated' = Uuids(out.evaluated)
                 /\ rerun' = (req = last_request)
                 /\ last_results' = out.results
         IN Done(main(req, cache_file))
    /\ UNCHANGED <<catalogue, splitVars, concVars, stdioVars, slideVars>>

Next ==
    \/ Analyze
    \/ Main

\* The configuration a request is evaluated under: DEFAULTS merged with its
\* patch (lines 957-958), and for a run of main() its threshold (lines
\* 1191-1203).
EffectiveConfig(request) ==
    IF request.op = "main"
    THEN ThresholdOverride(deep_merge(DEFAULTS, request.config), request.threshold)
    ELSE deep_merge(DEFAULTS, request.config)

\* The request handled again, by the operation that handled it.
Handle(request, file) ==
    IF request.op = "main" THEN main(request, file) ELSE handle_analyze(request, file)

Spec == InitMain /\ [][Next]_vars

SpecDirectives == InitDirectives /\ [][Next]_vars

SpecDisable == InitDisable /\ [][Next]_vars

SpecPatches == InitPatches /\ [][Next]_vars

SpecFixed == InitFixed /\ [][Next]_vars


(***************************************************************************)
(* Two processes, each handling one analyze request, on one cache file.    *)
(* The code takes no lock, so what one process does between its load_cache *)
(* (line 965) and its save_cache (line 985) can interleave with the other, *)
(* and so can the two steps of save_cache: open(path, "w"), which empties  *)
(* the file, and the write of the text at close, at the start of the file. *)
(* A text of this size stays in the buffer of the file object until close. *)
(* cache_file is the text last written; the file is that text alone, or    *)
(* that text and the end of a longer one written before, or empty.         *)
(***************************************************************************)
Procs == {1, 2}

ConcRequests == { AnalyzeRequest(d, CfgNone) : d \in Decks(PlainSlides, MaxSlides) }

\* No file: load_cache reads it as it reads an empty one.
NoFile == [len |-> 0, json |-> FALSE]

\* load_cache (lines 797-803) on the file: the dict of a JSON text, and {} from
\* the except branch for a file that is none.
ReadCache(d, text) == IF d.json THEN load_cache(text) ELSE load_cache(NoCache)

\* The file after a text of n characters is written at its start (line 808):
\* the text alone where it covers what the file held, and else the text
\* followed by the rest of the file, which is no JSON text.
Written(d, n) ==
    IF n >= d.len THEN [len |-> n, json |-> TRUE] ELSE [len |-> d.len, json |-> FALSE]

InitConc ==
    /\ cpc = [p \in Procs |-> "load"]
    /\ creq \in [Procs -> ConcRequests]
    /\ local = [p \in Procs |-> NoCache]
    /\ cresp = [p \in Procs |-> NoResponse]
    /\ stored = [p \in Procs |-> {}]
    /\ disk = NoFile
    /\ catalogue = "none" /\ cache_file = NoCache /\ last_request = NoRequest
    /\ last_response = NoResponse /\ before = NoCache /\ evaluated = {} /\ rerun = FALSE
    /\ last_results = <<>>
    /\ SplitIdle /\ StdioIdle /\ SlideIdle

\* Lines 952-966: the process reads the cache file.
ConcLoad(p) ==
    /\ cpc[p] = "load"
    /\ local' = [local EXCEPT ![p] = ReadCache(disk, cache_file)]
    /\ cpc' = [cpc EXCEPT ![p] = "eval"]
    /\ UNCHANGED <<creq, cresp, stored, disk, mainVars, splitVars, stdioVars, slideVars>>

\* Lines 968-985 and 807: the process evaluates what the cache it loaded does
\* not hold and opens the file for writing, which empties it; with nothing to
\* evaluate, or an exception, it responds (lines 987-1029) and writes nothing.
ConcOpen(p) ==
    /\ cpc[p] = "eval"
    /\ LET Done(out) ==
               IF out.saved
               THEN /\ disk' = NoFile
                    /\ cache_file' = NoCache
                    /\ cpc' = [cpc EXCEPT ![p] = "write"]
                    /\ UNCHANGED cresp
               ELSE /\ cresp' = [cresp EXCEPT ![p] = out.response]
                    /\ cpc' = [cpc EXCEPT ![p] = "done"]
                    /\ UNCHANGED <<disk, cache_file>>
       IN Done(handle_analyze(creq[p], local[p]))
    /\ UNCHANGED <<creq, local, stored, catalogue, last_request, last_response, before,
                   evaluated, rerun, last_results, splitVars, stdioVars, slideVars>>

\* Lines 808 and 987-1029: the process writes the cache it loaded with its new
\* entries at the start of the file, closes it and responds.
ConcWrite(p) ==
    /\ cpc[p] = "write"
    /\ LET Done(out) ==
               /\ disk' = Written(disk, JsonLen(out.file))
               /\ cache_file' = out.file
               /\ stored' = [stored EXCEPT ![p] = Uuids(out.evaluated)]
               /\ cresp' = [cresp EXCEPT ![p] = out.response]
       IN Done(handle_analyze(creq[p], local[p]))
    /\ cpc' = [cpc EXCEPT ![p] = "done"]
    /\ UNCHANGED <<creq, local, catalogue, last_request, last_response, before,
                   evaluated, rerun, last_results, splitVars, stdioVars, slideVars>>

NextConc ==
    \/ \E p \in Procs : ConcLoad(p)
    \/ \E p \in Procs : ConcOpen(p)
    \/ \E p \in Procs : ConcWrite(p)

SpecConc == InitConc /\ [][NextConc]_vars

(***************************************************************************)
(* The stdio protocol: one request per input line, one response per line.  *)
(* An input line is a JSON text, given by the value it denotes (an object  *)
(* is D of its members: "op" and "rule" plain strings, "document" its      *)
(* lines, "config" a JSON value), or a text that json.loads rejects, or    *)
(* bytes that are no text in the encoding of the stream.  sys.stdin reads  *)
(* the bytes written to it in chunks and decodes a chunk as a whole before *)
(* the iteration yields its first line; a chunk is the lines written by    *)
(* the time of the read: one line for a client that waits for each answer, *)
(* several for one that writes ahead.                                      *)
(***************************************************************************)
MaxLines == 3

JsonLine(value) == [json |-> TRUE, value |-> value]
TextLine(text) == [json |-> FALSE, value |-> [text |-> text]]
\* The line of the one byte 0xFF, which no UTF-8 text holds.
UndecodableLine == [json |-> FALSE, value |-> [bytes |-> <<255>>]]
\* What the error handler surrogateescape decodes the byte 0xFF to: the lone
\* surrogate U+DCFF, held as an atom.
LoneSurrogate == "U+DCFF"
\* The character U+FEFF, held as an atom; str.strip leaves it in place.
ByteOrderMark == "U+FEFF"
\* The line of U+FEFF followed by {}.
BomLine == [json |-> FALSE, value |-> [chars |-> <<ByteOrderMark, "{", "}">>]]

NotJsonLine == TextLine("{bad")
BlankLine == TextLine("")
ListLine == JsonLine(L(<<>>))
NumberLine == JsonLine(N(5))
StringLine == JsonLine(S("x"))
NullLine == JsonLine(Missing)
\* The request {"rule": "nope"}: a JSON object with no "op"; and {}.
NoOpLine == JsonLine(D([rule |-> "nope"]))
EmptyObjectLine == JsonLine(EmptyDict)

(***************************************************************************)
(* json.loads(text), text a sequence of characters: where the decoder      *)
(* stops, [ok, msg, pos], pos counted from 0 (the end of the value, or the *)
(* position of the JSONDecodeError).                                       *)
(***************************************************************************)
JsonFail(msg, pos) == [ok |-> FALSE, msg |-> msg, pos |-> pos]
JsonEnd(pos) == [ok |-> TRUE, msg |-> "", pos |-> pos]

\* text[pos], "" past the end
CharAt(t, pos) == IF pos < Len(t) THEN t[pos + 1] ELSE ""

JsonWhitespace == {" ", "\t", "\n", "\r"}

\* The characters U+0001 to U+001F, which a JSON string holds only escaped (as
\* U+0000, which no text of the model holds).
ControlChars ==
    LET all == Explode("")
    IN {all[n] : n \in 1..Len(all)} \cup {"\t", "\n", "\r", "\f"}

RECURSIVE SkipWhitespace(_, _)
SkipWhitespace(t, pos) ==
    IF CharAt(t, pos) \in JsonWhitespace THEN SkipWhitespace(t, pos + 1) ELSE pos

RECURSIVE SkipDigits(_, _)
SkipDigits(t, pos) == IF IsDigit(CharAt(t, pos)) THEN SkipDigits(t, pos + 1) ELSE pos

\* The text holds word at pos.
HoldsAt(t, pos, word) ==
    /\ pos + Len(word) <= Len(t)
    /\ \A n \in 1..Len(word) : t[pos + n] = SubSeq(word, n, n)

\* The string that opened at begin, from pos on.
RECURSIVE scanstring(_, _, _)
scanstring(t, pos, begin) ==
    LET c == CharAt(t, pos)
        esc == CharAt(t, pos + 1)
    IN CASE c = "" -> JsonFail("Unterminated string starting at", begin)
         [] c = "\"" -> JsonEnd(pos + 1)
         [] c = "\\" ->
               IF esc = "" THEN JsonFail("Unterminated string starting at", begin)
               ELSE IF esc = "u"
               THEN IF \/ pos + 6 >= Len(t)
                       \/ \E n \in 2..5 : ~IsHex(Lower(CharAt(t, pos + n)))
                    THEN JsonFail("Invalid \\uXXXX escape", pos + 1)
                    ELSE scanstring(t, pos + 6, begin)
               ELSE IF esc \in {"\"", "\\", "/", "b", "f", "n", "r", "t"}
               THEN scanstring(t, pos + 2, begin)
               ELSE JsonFail("Invalid \\escape", pos)
         [] c \in ControlChars -> JsonFail("Invalid control character at", pos)
         [] OTHER -> scanstring(t, pos + 1, begin)

\* A number from start on: -?(0|[1-9][0-9]*)(\.[0-9]+)?([eE][-+]?[0-9]+)?
match_number(t, start) ==
    LET int == IF CharAt(t, start) = "-" THEN start + 1 ELSE start
        frac == IF CharAt(t, int) = "0" THEN int + 1 ELSE SkipDigits(t, int)
        exp == IF CharAt(t, frac) = "." /\ IsDigit(CharAt(t, frac + 1))
               THEN SkipDigits(t, frac + 2)
               ELSE frac
        sign == IF CharAt(t, exp + 1) \in {"+", "-"} THEN exp + 2 ELSE exp + 1
    IN IF ~IsDigit(CharAt(t, int)) THEN JsonFail("Expecting value", start)
       ELSE IF CharAt(t, exp) \in {"e", "E"} /\ IsDigit(CharAt(t, sign))
       THEN JsonEnd(SkipDigits(t, sign))
       ELSE JsonEnd(exp)

JsonLiterals == <<"null", "true", "false", "NaN", "Infinity", "-Infinity">>

RECURSIVE scan_once(_, _)
RECURSIVE JSONObject(_, _)
RECURSIVE JSONArray(_, _)

\* One member of an object and those after it, from the position of its key.
JSONObject(t, pos) ==
    LET AfterValue(end) ==
            CASE CharAt(t, end) = "}" -> JsonEnd(end + 1)
              [] CharAt(t, end) = "," -> JSONObject(t, SkipWhitespace(t, end + 1))
              [] OTHER -> JsonFail("Expecting ',' delimiter", end)
        Value(value) ==
            IF value.ok THEN AfterValue(SkipWhitespace(t, value.pos)) ELSE value
        AfterKey(colon) ==
            IF CharAt(t, colon) # ":" THEN JsonFail("Expecting ':' delimiter", colon)
            ELSE Value(scan_once(t, SkipWhitespace(t, colon + 1)))
        Key(key) == IF key.ok THEN AfterKey(SkipWhitespace(t, key.pos)) ELSE key
    IN IF CharAt(t, pos) # "\""
       THEN JsonFail("Expecting property name enclosed in double quotes", pos)
       ELSE Key(scanstring(t, pos + 1, pos))

\* One element of an array and those after it.
JSONArray(t, pos) ==
    LET AfterValue(end) ==
            CASE CharAt(t, end) = "]" -> JsonEnd(end + 1)
              [] CharAt(t, end) = "," -> JSONArray(t, SkipWhitespace(t, end + 1))
              [] OTHER -> JsonFail("Expecting ',' delimiter", end)
        Value(value) ==
            IF value.ok THEN AfterValue(SkipWhitespace(t, value.pos)) ELSE value
    IN Value(scan_once(t, pos))

\* One JSON value at pos.
scan_once(t, pos) ==
    LET c == CharAt(t, pos)
        inside == SkipWhitespace(t, pos + 1)
        literals == { n \in 1..Len(JsonLiterals) : HoldsAt(t, pos, JsonLiterals[n]) }
    IN CASE c = "" -> JsonFail("Expecting value", pos)
         [] c = "\"" -> scanstring(t, pos + 1, pos)
         [] c = "{" ->
               IF CharAt(t, inside) = "}" THEN JsonEnd(inside + 1)
               ELSE JSONObject(t, inside)
         [] c = "[" ->
               IF CharAt(t, inside) = "]" THEN JsonEnd(inside + 1)
               ELSE JSONArray(t, inside)
         [] OTHER ->
               IF literals # {}
               THEN JsonEnd(pos + Len(JsonLiterals[CHOOSE n \in literals : TRUE]))
               ELSE match_number(t, pos)

\* json.loads: a text that starts with U+FEFF is rejected before it is
\* scanned; then JSONDecoder.decode: one value, and nothing but whitespace
\* after it.
JsonDecode(t) ==
    LET After(value, end) ==
            IF ~value.ok THEN value
            ELSE IF end # Len(t) THEN JsonFail("Extra data", end)
            ELSE value
        Value(value) == After(value, SkipWhitespace(t, value.pos))
    IN IF t # <<>> /\ t[1] = ByteOrderMark
       THEN JsonFail("Unexpected UTF-8 BOM (decode using utf-8-sig)", 0)
       ELSE Value(scan_once(t, SkipWhitespace(t, 0)))

\* str(e) of a JSONDecodeError at pos: the message, the line and the column
\* counted from 1 and the position.
JsonErrorAt(t, msg, pos) ==
    LET newlines == { n \in 1..pos : t[n] = "\n" }
        last == IF newlines = {} THEN 0
                ELSE CHOOSE n \in newlines : \A other \in newlines : other <= n
    IN msg \o ": line " \o ToString(Cardinality(newlines) + 1)
           \o " column " \o ToString(pos - last + 1)
           \o " (char " \o ToString(pos) \o ")"

\* str(e) of the JSONDecodeError json.loads raises on the characters, "" where
\* it raises none.
JsonErrorOf(t) ==
    LET Message(r) == IF r.ok THEN "" ELSE JsonErrorAt(t, r.msg, r.pos)
    IN Message(JsonDecode(t))

\* The same on a text held as a string (of code points up to U+00FF).
JsonError(text) == JsonErrorOf(Explode(text))

\* A JSON value that is an object, and the name in Python of the type of one
\* that is none.
IsObject(value) == IsDict(value)

TypeName(value) ==
    CASE value.t = "list" -> "list"
      [] value.t = "num" -> "int"
      [] value.t = "str" -> "str"
      [] OTHER -> "NoneType"

RuleSeverity(id) ==
    CASE id \in {"title/required", "color/low_contrast", "accessibility/alt_required"}
            -> "error"
      [] id \in {"content/too_short", "links/bare_urls"} -> "info"
      [] OTHER -> "warning"

RuleBucket(id) ==
    CASE id \in {"color/low_contrast", "color/too_many"} -> "color"
      [] id \in {"accessibility/alt_required", "links/bare_urls"} -> "a11y"
      [] id = "code/too_long" -> "code"
      [] OTHER -> "content"

\* handle_slides
handle_slides(request) ==
    LET Listed(parsed) ==
            IF parsed.raised THEN Failure(UnpackError)
            ELSE [ ok |-> TRUE,
                   slides |-> [ n \in 1..Len(parsed.slides) |->
                                  [ index |-> parsed.slides[n].index,
                                    uuid |-> parsed.slides[n].uuid,
                                    title |-> parsed.slides[n].title,
                                    line_count |-> Len(parsed.slides[n].body) ] ] ]
    IN Listed(parse_slides(RequestGet(request, "document", EmptyDocument)))

\* handle_rules
handle_rules(request) ==
    [ ok |-> TRUE,
      rules |-> [ n \in 1..Len(REGISTRY) |->
                    [ id |-> REGISTRY[n], severity |-> RuleSeverity(REGISTRY[n]),
                      bucket |-> RuleBucket(REGISTRY[n]) ] ] ]

\* handle_explain; the description is the docstring of the rule's class, and
\* request.get("rule") of a request with no "rule" is None.
handle_explain(request) ==
    LET rule_id == RequestGet(request, "rule", "None")
    IN IF \E n \in 1..Len(REGISTRY) : REGISTRY[n] = rule_id
       THEN [ ok |-> TRUE,
              rule |-> [ id |-> rule_id, severity |-> RuleSeverity(rule_id),
                         bucket |-> RuleBucket(rule_id),
                         description |-> <<"docstring", rule_id>> ] ]
       ELSE Failure(<<"Unknown rule: ", rule_id>>)

\* process_request on the cache file: [raised, response, file].  request.get
\* raises on every value that is no object (a list, a number, a string, null),
\* and gives None for an object that has no "op".
process_request(request, file) ==
    LET Analyzed(out) == [raised |-> FALSE, response |-> out.response, file |-> out.file]
        Handled(response) == [raised |-> FALSE, response |-> response, file |-> file]
        Dispatch(members, op) ==
            CASE op = "analyze" -> Analyzed(handle_analyze(members, file))
              [] op = "slides" -> Handled(handle_slides(members))
              [] op = "rules" -> Handled(handle_rules(members))
              [] op = "explain" -> Handled(handle_explain(members))
              [] OTHER -> Handled(Failure(<<"Unknown operation: ", op>>))
    IN IF ~IsObject(request)
       THEN [raised |-> TRUE,
             response |-> Failure(<<"'", TypeName(request),
                                    "' object has no attribute 'get'">>),
             file |-> file]
       ELSE Dispatch(request.d, RequestGet(request.d, "op", "None"))

\* The bytes of the line are no text in the encoding of the stream.
IsUndecodable(line) == ~line.json /\ "bytes" \in DOMAIN line.value

\* The characters of a line that is no JSON text, as the stream decodes them;
\* the error handler surrogateescape gives a lone surrogate for each byte that
\* is no text.
LineChars(line) ==
    IF "text" \in DOMAIN line.value THEN Explode(line.value.text)
    ELSE IF "chars" \in DOMAIN line.value THEN line.value.chars
    ELSE [n \in 1..Len(line.value.bytes) |-> LoneSurrogate]

\* One iteration of handle_stdio, lines 924-932, on a line the stream has
\* decoded: what it prints, and the cache file it leaves.  The try catches
\* every exception of json.loads, process_request and print.
StdioLine(line, file) ==
    LET Rejected(t) ==
            [printed |-> <<Failure(<<JsonErrorOf(Strip(t))>>)>>, file |-> file]
        Printed(out) == [printed |-> <<out.response>>, file |-> out.file]
    IN IF line.json THEN Printed(process_request(line.value, file))
       ELSE Rejected(LineChars(line))

\* The stream decodes the chunk it has read, for the iteration at line 923,
\* outside the try: on bytes that are no text a stream with the error handler
\* strict raises UnicodeDecodeError before any line of the chunk is yielded.
DecodeRaises(chunk, errors) ==
    errors = "strict" /\ \E n \in 1..Len(chunk) : IsUndecodable(chunk[n])

\* Configuration whose "rules" is a number: every rule that reads a limit fails.
CfgBadRules == D([rules |-> N(5)])
\* Configuration whose "buckets" is the list ["content"]: the rules fail on a
\* slide they evaluate, the summary iterates it.
CfgListBuckets == D([buckets |-> L(<< <<"content">> >>)])

AnalyzeLines ==
    { JsonLine(D(AnalyzeRequest(d, c))) :
        d \in {SlideA, SlideBareDisable}, c \in {CfgNone, CfgBadRules, CfgListBuckets} }
SlidesLines ==
    { JsonLine(D([op |-> "slides", document |-> d])) : d \in {SlideA, SlideBareDisable} }
\* {"op": "rules"} and {"op": "rules", "t": "x"}
RulesLines == { JsonLine(D([op |-> "rules"])), JsonLine(D([op |-> "rules", t |-> "x"])) }
ExplainLines ==
    { JsonLine(D([op |-> "explain", rule |-> r])) : r \in {"title/required", "nope"} }
UnknownOpLines == { JsonLine(D([op |-> "frobnicate"])), NoOpLine, EmptyObjectLine }
\* Texts that are no JSON: they stop the decoder at their first character or
\* after it.
JsonTexts == {"{bad", "", "{", "[1,", "\"abc", "1 2", "{\"op\":\"rules\""}
NotJsonLines == { TextLine(text) : text \in JsonTexts } \cup {BomLine}
NotObjectLines == { ListLine, NumberLine, StringLine, NullLine }
UnparseableLines == NotJsonLines \cup NotObjectLines

InitStdio ==
    /\ stdin = <<>> /\ decoded = <<>> /\ stdout = <<>> /\ crashed = FALSE
    /\ stdin_errors \in {"strict", "surrogateescape"}
    /\ catalogue = "none" /\ cache_file = NoCache /\ last_request = NoRequest
    /\ last_response = NoResponse /\ before = NoCache /\ evaluated = {} /\ rerun = FALSE
    /\ last_results = <<>>
    /\ SplitIdle /\ ConcIdle /\ SlideIdle

\* The lines of the chunks that hold a line that is no text, or more than one
\* line.
ChunkLines ==
    { JsonLine(D([op |-> "rules"])), JsonLine(D([op |-> "explain", rule |-> "nope"])),
      NotJsonLine, BomLine, UndecodableLine }

\* The iteration at line 923 finds no decoded line left: the stream reads the
\* next chunk and decodes it.
StdioRead(chunk) ==
    /\ ~crashed /\ decoded = <<>>
    /\ chunk # <<>> /\ Len(stdin) + Len(chunk) <= MaxLines
    /\ stdin' = stdin \o chunk
    /\ crashed' = DecodeRaises(chunk, stdin_errors)
    /\ decoded' = IF DecodeRaises(chunk, stdin_errors) THEN <<>> ELSE chunk
    /\ UNCHANGED <<stdout, stdin_errors, mainVars, splitVars, concVars, slideVars>>

\* One iteration of the loop of handle_stdio on the next decoded line.
StdioStep ==
    /\ ~crashed /\ decoded # <<>>
    /\ LET Done(out) ==
               /\ stdout' = stdout \o out.printed
               /\ cache_file' = out.file
       IN Done(StdioLine(Head(decoded), cache_file))
    /\ decoded' = Tail(decoded)
    /\ UNCHANGED <<catalogue, last_request, last_response, before, evaluated, rerun,
                   last_results, stdin, crashed, stdin_errors,
                   splitVars, concVars, slideVars>>

\* A client that waits for the answer to each line: chunks of one line.
StdioAnalyze == \E line \in AnalyzeLines : StdioRead(<<line>>)
StdioSlides == \E line \in SlidesLines : StdioRead(<<line>>)
StdioRules == \E line \in RulesLines : StdioRead(<<line>>)
StdioExplain == \E line \in ExplainLines : StdioRead(<<line>>)
StdioUnknownOp == \E line \in UnknownOpLines : StdioRead(<<line>>)
StdioUnparseable == \E line \in UnparseableLines : StdioRead(<<line>>)
\* A line of undecodable bytes, and a client that writes ahead: the lines
\* written since the last read arrive as one chunk.
StdioChunks ==
    \E m \in 1..(MaxLines - Len(stdin)) :
        \E chunk \in [1..m -> ChunkLines] : StdioRead(chunk)

NextStdio ==
    \/ StdioAnalyze
    \/ StdioSlides
    \/ StdioRules
    \/ StdioExplain
    \/ StdioUnknownOp
    \/ StdioUnparseable
    \/ StdioChunks
    \/ StdioStep

SpecStdio == InitStdio /\ [][NextStdio]_vars

(***************************************************************************)
(* One slide through the parser and the rules: parse_slides builds the     *)
(* Slide from a text split_slides gave (lines 397-439), evaluate_all hands *)
(* it to run_rules_on_slide with the effective configuration of the        *)
(* request (line 752).                                                     *)
(***************************************************************************)
MaxTextLines == 3

\* The lines a slide text is made of.
SlideLines ==
    { <<"#", " ", "T">>,
      <<"#", "#", " ", "S">>,
      <<"#", " ", "T", "#", "#", " ", "S">>,
      <<"#", " ", "#", "#", "x">>,
      <<"#", "#", " ", "A", "#", "#", "#", "B">>,
      <<"a", "b", "c">>,
      Backticks \o Explode("python"),
      Backticks,
      Explode("color: #aaaaaa"),
      Explode("color: #404040"),
      Explode("Color: #000000"),
      Explode("color: #1b0e87"),
      <<"x", " ", "|", " ", "y">>,
      Explode("Mermaid"),
      Explode("Practice:"),
      Explode("[t](https://a.io/x)") }

\* The texts of up to MaxTextLines lines that split_slides returns as one slide.
SlideTexts ==
    { t \in UNION { [1..m -> SlideLines] : m \in 1..MaxTextLines } :
        split_slides(t) = <<t>> }

\* Request configurations: limits for code blocks of 0 and 5 lines, an error
\* threshold of 7.0 under a warn threshold of 21.0, equivalence weights of 1000 and 2000, an odd weight and a
\* bucket with a wildcard and an exact pattern for one rule; and an error
\* threshold of 21.0 under a warn threshold of 30.0 with two negative weights.
CfgStrict ==
    D([rules |-> D([code |-> D([max_complex |-> N(0), max_simple |-> N(5)]),
                    color |-> D([min_contrast_error |-> N(70),
                                 min_contrast_warn |-> N(210)]),
                    special |-> D([table_char_eq |-> N(1000),
                                   chart_char_eq |-> N(2000)])]),
       weights |-> D(("color/low_contrast" :> N(5))),
       buckets |-> D([own |-> L(<<Glob("title"), IdAtoms("title/required")>>)])])

CfgEdge ==
    D([rules |-> D([color |-> D([min_contrast_error |-> N(210),
                                 min_contrast_warn |-> N(300)])]),
       weights |-> D(("color/low_contrast" :> N(-5)) @@ ("content/too_short" :> N(-5)))])

\* A warn threshold of null under the default error threshold of 3.0.
CfgNullWarn == D([rules |-> D([color |-> D([min_contrast_warn |-> Missing])])])

SlideConfigs == {CfgNone, CfgStrict, CfgEdge, CfgNullWarn}

NoSlide == <<>>

InitSlide ==
    /\ text_in \in SlideTexts
    /\ config_in \in SlideConfigs
    /\ parsed_slide = NoSlide
    /\ rule_result = <<>>
    /\ stage = "text"
    /\ SplitIdle /\ MainIdle /\ ConcIdle /\ StdioIdle

\* The body of the loop of parse_slides on the text.
ParseText ==
    /\ stage = "text"
    /\ LET Done(out) ==
               /\ parsed_slide' = IF out.raised THEN NoSlide ELSE out.slide
               /\ stage' = IF out.raised THEN "failed" ELSE "parsed"
       IN Done(ParseSlide(0, text_in))
    /\ UNCHANGED <<text_in, config_in, rule_result>>
    /\ UNCHANGED <<splitVars, mainVars, concVars, stdioVars>>

\* run_rules_on_slide on the Slide, under the configuration handle_analyze
\* merged from DEFAULTS and the request (lines 957-958).
RunRules ==
    /\ stage = "parsed"
    /\ LET Done(out) ==
               /\ rule_result' = out
               /\ stage' = IF out.raised THEN "failed" ELSE "scored"
       IN Done(run_rules_on_slide(parsed_slide, deep_merge(DEFAULTS, config_in)))
    /\ UNCHANGED <<text_in, config_in, parsed_slide>>
    /\ UNCHANGED <<splitVars, mainVars, concVars, stdioVars>>

NextSlide ==
    \/ ParseText
    \/ RunRules

SpecSlide == InitSlide /\ [][NextSlide]_vars


(***************************************************************************)
(* C1.  Fenced blocks, tracked independently of the splitter: the token    *)
(* open just before line k when tracking starts at line from.              *)
(***************************************************************************)
RECURSIVE OpenBefore(_, _, _)
OpenBefore(ls, from, k) ==
    IF k <= from THEN NoFence
    ELSE LET prev == OpenBefore(ls, from, k - 1)
             l == LStrip(ls[k - 1])
         IN IF prev = NoFence
            THEN IF StartsWith(l, Backticks) THEN Backticks
                 ELSE IF StartsWith(l, Tildes) THEN Tildes
                 ELSE NoFence
            ELSE IF StartsWith(l, prev) THEN NoFence ELSE prev

\* Line k lies inside an open fenced block (the closing line included).
InsideFence(ls, from, k) == k >= from /\ OpenBefore(ls, from, k) # NoFence

\* Line k opens a fenced block.
OpensBlock(ls, from, k) ==
    /\ k >= from
    /\ OpenBefore(ls, from, k) = NoFence
    /\ OpenBefore(ls, from, k + 1) # NoFence

RECURSIVE BlockEnd(_, _, _)
BlockEnd(ls, from, k) ==
    IF k < Len(ls) /\ InsideFence(ls, from, k + 1) THEN BlockEnd(ls, from, k + 1) ELSE k

SeparatorsOutside(ls, from) ==
    { k \in from..Len(ls) : Strip(ls[k]) = Separator /\ ~InsideFence(ls, from, k) }

\* C1 as stated: for every document, fences tracked from its first line, no slide
\* ends at a line inside an open fenced block, every line of a fenced block is
\* kept in the body of one slide, and at most 1 + (number of '---' lines outside
\* fences) slides are emitted.
C1_AsStated ==
    /\ \A k \in ended : ~InsideFence(lines, 1, k)
    /\ pc = "done" =>
        /\ \A j \in 1..Len(lines) :
              OpensBlock(lines, 1, j) =>
                 \E n \in 1..Len(ret) :
                    IsInfix(StripEach(SubSeq(lines, j, BlockEnd(lines, 1, j))),
                            StripEach(ret[n]))
        /\ Len(ret) <= 1 + Cardinality(SeparatorsOutside(lines, 1))

\* C1 (amended): with fences tracked from the first line after the discarded
\* leading frontmatter block, no slide ends at a line inside an open fenced block,
\* every line of a fenced block is kept in the body of one slide, except the
\* whitespace-only lines that end an unclosed block (trimmed with the slide), and
\* at most 1 + (number of '---' lines after the frontmatter and outside fences)
\* slides are emitted.
C1_FenceNeverSplits ==
    LET from == FrontmatterEnd(lines) IN
    /\ \A k \in ended : ~InsideFence(lines, from, k)
    /\ pc = "done" =>
        /\ \A j \in 1..Len(lines) :
              OpensBlock(lines, from, j) =>
                 \E n \in 1..Len(ret) :
                    IsInfix(StripEach(DropBlankTail(
                               SubSeq(lines, j, BlockEnd(lines, from, j)))),
                            StripEach(ret[n]))
        /\ Len(ret) <= 1 + Cardinality(SeparatorsOutside(lines, from))

\* A '---' line inside a closed fenced block, followed by a real separator: two
\* slides, the first holding the '---' line.
C1_Witness ==
    /\ pc = "done"
    /\ Len(ret) = 2
    /\ \E k \in 1..Len(lines) :
          /\ InsideFence(lines, FrontmatterEnd(lines), k)
          /\ Strip(lines[k]) = Separator
          /\ \E m \in 1..Len(ret[1]) : ret[1][m] = Separator
    /\ ended # {}

(***************************************************************************)
(* Claims about the analyze operation, read on the last request handled:   *)
(* last_response.slides[n] is the report of the n-th slide of the          *)
(* document, before is the cache the request loaded, evaluated the         *)
(* identities it gave to evaluate_all.                                     *)
(***************************************************************************)
Reported == IF last_response.ok THEN last_response.slides ELSE <<>>

DuplicateFindings(slide) ==
    SelectSeq(slide.diagnostics, LAMBDA f : f.rule = "structure/duplicate_titles")

\* The score the specification gives a set of findings, computed apart from the
\* model of the code.
RECURSIVE PositiveDeductions(_)
PositiveDeductions(fs) ==
    IF fs = <<>> THEN 0
    ELSE (IF fs[1].deduction > 0 THEN fs[1].deduction ELSE 0)
         + PositiveDeductions(Tail(fs))

Clamped(fs) ==
    LET total == 100 - PositiveDeductions(fs)
    IN IF total < 0 THEN 0 ELSE IF total > 100 THEN 100 ELSE total

\* C2: a request that repeats the request before it, on the cache that one left,
\* gets the same response: the same slides in the same order with the same
\* findings, scores and bucket scores, and the same summary.
C2_RepeatIsIdentical ==
    [][(last_request # NoRequest /\ last_request' = last_request)
          => last_response' = last_response]_vars

\* A repeated request of two slides, answered from the cache alone, whose slides
\* carry duplicate-title findings.
C2_Witness ==
    /\ rerun /\ last_response.ok /\ evaluated = {}
    /\ Len(Reported) = 2
    /\ \A n \in 1..Len(Reported) : DuplicateFindings(Reported[n]) # <<>>

\* C3, as stated: whenever two slides of the analyzed document share a non-empty
\* title, each of them carries a structure/duplicate_titles finding in the
\* result, cache hits and cache misses alike.
C3_AsStated ==
    \A n \in 1..Len(Reported), m \in 1..Len(Reported) :
        (n # m /\ Reported[n].title # <<>> /\ Reported[n].title = Reported[m].title)
            => DuplicateFindings(Reported[n]) # <<>>

\* C4: the score of every slide reported, and of every entry the cache holds,
\* is clamp(100 - sum of max(0, deduction), 0, 100) over its final findings.
C4_ScoreIsRecomputed ==
    /\ \A n \in 1..Len(Reported) : Reported[n].score = Clamped(Reported[n].diagnostics)
    /\ \A uuid \in DOMAIN cache_file :
          cache_file[uuid].score = Clamped(cache_file[uuid].diagnostics)

\* A slide rebuilt from the cache with the duplicate-title finding it was cached
\* with next to a finding of its own, and a freshly evaluated slide that lost
\* points.
C4_Witness ==
    /\ Len(Reported) = 2
    /\ Reported[1].uuid \in DOMAIN before /\ Len(Reported[1].diagnostics) = 2
    /\ DuplicateFindings(Reported[1]) # <<>>
    /\ Reported[2].uuid \in evaluated /\ Reported[2].score < 100

\* C5: the score and every bucket score of every slide reported lie in 0..100.
C5_ScoresInRange ==
    \A n \in 1..Len(Reported) :
        /\ Reported[n].score \in 0..100
        /\ \A name \in DOMAIN Reported[n].bucket_scores :
              Reported[n].bucket_scores[name] \in 0..100

\* A response with a slide whose deductions sum past 100 and a slide that has a
\* finding of negative deduction.
C5_Witness ==
    /\ \E n \in 1..Len(Reported) : PositiveDeductions(Reported[n].diagnostics) > 100
    /\ \E n \in 1..Len(Reported) :
          \E k \in 1..Len(Reported[n].diagnostics) :
              Reported[n].diagnostics[k].deduction < 0

\* The n-th slide reported shares its non-empty title with another slide that
\* was given to evaluate_all.
SharesTitle(n) ==
    /\ Reported[n].title # <<>>
    /\ \E m \in 1..Len(Reported) :
          m # n /\ Reported[m].uuid \in evaluated /\ Reported[m].title = Reported[n].title

\* C6: of the slides given to evaluate_all, each whose non-empty title is on two
\* or more of them gets exactly one structure/duplicate_titles warning of
\* deduction 5, and each other one gets none.
C6_DuplicateTitles ==
    \A n \in 1..Len(Reported) :
        Reported[n].uuid \in evaluated =>
            /\ Len(DuplicateFindings(Reported[n])) = (IF SharesTitle(n) THEN 1 ELSE 0)
            /\ \A k \in 1..Len(DuplicateFindings(Reported[n])) :
                  /\ DuplicateFindings(Reported[n])[k].deduction = 5
                  /\ DuplicateFindings(Reported[n])[k].severity = "warning"

\* Two evaluated slides that share a title and carry the finding, under weights
\* that are not the defaults.
C6_Witness ==
    /\ Len(Reported) = 2 /\ Cardinality(evaluated) = 2
    /\ last_request.config = CfgHeavy
    /\ \A n \in 1..2 : SharesTitle(n) /\ Len(DuplicateFindings(Reported[n])) = 1

\* C7: a slide whose identity the loaded cache holds is reported with exactly the
\* cached findings, score and bucket scores and is not given to evaluate_all; a
\* slide whose identity it does not hold is.
C7_HitsAreReused ==
    /\ evaluated \cap DOMAIN before = {}
    /\ \A n \in 1..Len(Reported) :
          IF Reported[n].uuid \in DOMAIN before
          THEN /\ Reported[n].diagnostics = before[Reported[n].uuid].diagnostics
               /\ Reported[n].score = before[Reported[n].uuid].score
               /\ Reported[n].bucket_scores = before[Reported[n].uuid].bucket_scores
          ELSE Reported[n].uuid \in evaluated

\* A document with one slide in the cache and one not, the cached one evaluated
\* earlier under another configuration.
C7_Witness ==
    /\ Len(Reported) = 2
    /\ Reported[1].uuid \in DOMAIN before /\ Reported[2].uuid \in evaluated
    /\ last_request.config = CfgNone
    /\ \E k \in 1..Len(Reported[1].diagnostics) : Reported[1].diagnostics[k].deduction < 0


(***************************************************************************)
(* Directives, concurrency and the stdio loop.                             *)
(***************************************************************************)
\* C9, as stated: whatever follows 'slidegauge:' in a directive, analyze of the
\* document returns a success result.
C9_AsStated ==
    (catalogue = "directives" /\ last_request # NoRequest) => last_response.ok

\* C8, as stated: after both requests complete, the cache file holds the entries
\* each of them wrote.
C8_AsStated ==
    (\A p \in Procs : cpc[p] = "done") =>
        \A p \in Procs : stored[p] \subseteq DOMAIN ReadCache(disk, cache_file)

\* The response the protocol owes a line of each failing kind.
IsFailure(r) == ~r.ok /\ "error" \in DOMAIN r /\ r.error # <<>>

\* The k-th line read is an analyze request whose analysis raises: its document
\* has a 'disable' directive with no rule, or its configuration breaks the rules
\* and no earlier line put the slide into the cache.
AnalysisFails(k) ==
    /\ stdin[k] \in AnalyzeLines
    /\ \/ stdin[k].value.d.document = SlideBareDisable
       \/ /\ stdin[k].value.d.config \in {CfgBadRules, CfgListBuckets}
          /\ \A j \in 1..(k - 1) :
                stdin[j] # JsonLine(D(AnalyzeRequest(stdin[k].value.d.document, CfgNone)))

FailingLine(k) ==
    \/ stdin[k] \in UnknownOpLines \cup UnparseableLines
    \/ stdin[k] = UndecodableLine
    \/ stdin[k] \in ExplainLines /\ stdin[k].value.d.rule = "nope"
    \/ AnalysisFails(k)

\* The k-th response is the one owed to the k-th line: the line of an unknown
\* operation, an unknown rule, an unparseable request or a failed analysis has
\* a response with ok = false and an error message.
Answered(k) ==
    /\ FailingLine(k) => IsFailure(stdout[k])
    /\ stdin[k] \in UnknownOpLines =>
          stdout[k].error =
              <<"Unknown operation: ", RequestGet(stdin[k].value.d, "op", "None")>>
    /\ stdin[k] \in ExplainLines /\ stdin[k].value.d.rule = "nope" =>
          stdout[k].error = <<"Unknown rule: ", "nope">>
    /\ \A text \in JsonTexts :
          stdin[k] = TextLine(text) => stdout[k].error = <<JsonError(text)>>
    /\ stdin[k] = BomLine =>
          stdout[k].error =
              <<"Unexpected UTF-8 BOM (decode using utf-8-sig): line 1 column 1 (char 0)">>
    /\ stdin[k] \in RulesLines => stdout[k].ok

\* Every line the loop has taken has one response, at its position, and the
\* lines without one are those it has yet to take.
OneResponsePerLine ==
    /\ Len(stdout) = Len(stdin) - Len(decoded)
    /\ \A k \in 1..Len(stdout) : Answered(k)

\* C10, as stated: every input line read has exactly one response line, at the
\* same position; the line of an unknown operation, an unknown rule, an
\* unparseable request or a failed analysis has a response with ok = false and
\* an error message; and no exception ends the loop.
C10_AsStated == ~crashed /\ OneResponsePerLine

\* What the loop keeps: an exception ends it on a chunk that holds a line of
\* undecodable bytes, read from a stream whose error handler is strict, and on
\* nothing else; the lines of that chunk have no response; the lines read
\* before it, and every line of every other stream, have their one response.
C10_DecodedLines ==
    /\ crashed <=>
          /\ stdin_errors = "strict"
          /\ \E k \in 1..Len(stdin) : stdin[k] = UndecodableLine
    /\ ~crashed => OneResponsePerLine
    /\ crashed =>
          /\ decoded = <<>> /\ Len(stdout) < Len(stdin)
          /\ \A k \in 1..Len(stdout) : stdin[k] # UndecodableLine /\ Answered(k)

\* A request answered, then a line of undecodable bytes on a strict stream: the
\* loop has ended with one response printed for two lines read.
C10_Crash ==
    /\ crashed /\ Len(stdin) = 2 /\ Len(stdout) = 1
    /\ stdin[1] \in RulesLines /\ stdout[1].ok
    /\ stdin[2] = UndecodableLine

\* The same two lines read in one chunk: the loop has ended with no response.
C10_ChunkLost ==
    /\ crashed /\ Len(stdin) = 2 /\ stdout = <<>>
    /\ stdin[1] \in RulesLines
    /\ stdin[2] = UndecodableLine

\* The line of U+FEFF and {} has its response, and the loop goes on.
C10_Bom ==
    /\ ~crashed /\ Len(stdin) = 2 /\ Len(stdout) = 2 /\ decoded = <<>>
    /\ stdin[1] = BomLine /\ IsFailure(stdout[1])
    /\ stdin[2] \in RulesLines /\ stdout[2].ok

\* Three lines read: a request that is no JSON, then an analysis that fails,
\* then a request that succeeds.
C10_ThreeLines ==
    /\ Len(stdin) = 3 /\ Len(stdout) = 3
    /\ stdin[1] = NotJsonLine /\ IsFailure(stdout[1])
    /\ AnalysisFails(2) /\ IsFailure(stdout[2])
    /\ stdin[3] \in RulesLines /\ stdout[3].ok


(***************************************************************************)
(* Disabled rules.                                                         *)
(***************************************************************************)
\* The disabled set of a reported slide, from the directives of its body.
DisabledOf(r) == parse_inline_overrides(r.body).disabled

\* C11, as stated: no finding of an evaluated slide carries a rule identifier
\* that is in the slide's disabled set, structure/duplicate_titles included.
C11_AsStated ==
    \A n \in 1..Len(Reported) :
        Reported[n].uuid \in evaluated =>
            \A k \in 1..Len(Reported[n].diagnostics) :
                Explode(Reported[n].diagnostics[k].rule) \notin DisabledOf(Reported[n])

(***************************************************************************)
(* Titles.  The title as the specification words it, written apart from    *)
(* the model of the code.                                                  *)
(***************************************************************************)
\* The lines of a text that, trimmed, begin with the prefix.
HeadingLines(t, prefix) == { n \in 1..Len(t) : StartsWith(Strip(t[n]), prefix) }

FirstOf(ns) == CHOOSE n \in ns : \A m \in ns : n <= m

\* The text of s before the first occurrence of the marker; s when it has none.
CutAt(s, marker) ==
    LET at == { k \in 1..(Len(s) - Len(marker) + 1) :
                   SubSeq(s, k, k + Len(marker) - 1) = marker }
    IN IF at = {} THEN s ELSE SubSeq(s, 1, FirstOf(at) - 1)

\* The title a heading line of the level gives: the text between its marker and
\* the first marker of a lower level.
TitleOfLine(ln, level) ==
    IF level = 1
    THEN Strip(Tail(CutAt(Strip(ln), <<"#", "#">>)))
    ELSE Strip(SubSeq(CutAt(Strip(ln), <<"#", "#", "#">>), 3,
                      Len(CutAt(Strip(ln), <<"#", "#", "#">>))))

StatedTitle(t) ==
    IF HeadingLines(t, <<"#", " ">>) # {}
    THEN TitleOfLine(t[FirstOf(HeadingLines(t, <<"#", " ">>))], 1)
    ELSE IF HeadingLines(t, <<"#", "#", " ">>) # {}
    THEN TitleOfLine(t[FirstOf(HeadingLines(t, <<"#", "#", " ">>))], 2)
    ELSE <<>>

\* C12, as stated: the title of a parsed slide is the text of its first line
\* that begins with '# ', cut at the first lower-level marker; a line beginning
\* with '## ' gives the title only when no line begins with '# '.
C12_AsStated ==
    stage \in {"parsed", "scored"} => parsed_slide.title = StatedTitle(text_in)

(***************************************************************************)
(* Bucket scores, as the specification words them.                         *)
(***************************************************************************)
\* A pattern that ends in '*' matches the identifiers of its category, any
\* other pattern the identifier it spells.
StatedMatch(pattern, rule) ==
    IF pattern[Len(pattern)] = "*"
    THEN SubSeq(IdAtoms(rule), 1, 2) = SubSeq(pattern, 1, 2)
    ELSE IdAtoms(rule) = pattern

\* The findings that match a pattern of the bucket, each of them once.
MatchingFindings(patterns, fs) ==
    SelectSeq(fs, LAMBDA f : \E n \in 1..Len(patterns) : StatedMatch(patterns[n], f.rule))

RECURSIVE RawDeductions(_)
RawDeductions(fs) ==
    IF fs = <<>> THEN 0 ELSE fs[1].deduction + RawDeductions(Tail(fs))

ClampedRaw(fs) ==
    LET total == 100 - RawDeductions(fs)
    IN IF total < 0 THEN 0 ELSE IF total > 100 THEN 100 ELSE total

\* The buckets of the configuration in effect for the slide under evaluation:
\* DEFAULTS, the request's patch and the slide's own patch.
SlideBuckets ==
    Get(deep_merge(deep_merge(DEFAULTS, config_in), parsed_slide.overrides.rules),
        "buckets").d

\* C13, as stated: a bucket score is clamp(100 - sum of the deductions of the
\* findings that match a pattern of the bucket, 0, 100).
C13_AsStated ==
    stage = "scored" =>
        /\ DOMAIN rule_result.bucket_scores = DOMAIN SlideBuckets
        /\ \A name \in DOMAIN SlideBuckets :
              rule_result.bucket_scores[name] =
                  ClampedRaw(MatchingFindings(SlideBuckets[name].l, rule_result.diags))

\* C13 (amended): a bucket score is clamp(100 - sum of max(0, deduction) over
\* the findings that match a pattern of the bucket, 0, 100), a finding counted
\* once however many patterns of the bucket match it.
C13_BucketScores ==
    stage = "scored" =>
        /\ DOMAIN rule_result.bucket_scores = DOMAIN SlideBuckets
        /\ \A name \in DOMAIN SlideBuckets :
              rule_result.bucket_scores[name] =
                  Clamped(MatchingFindings(SlideBuckets[name].l, rule_result.diags))

\* A title/required finding under the bucket own = [title/*, title/required]:
\* both patterns match it, and the bucket lost its deduction once.
C13_Witness ==
    /\ stage = "scored" /\ config_in = CfgStrict
    /\ \E k \in 1..Len(rule_result.diags) :
          /\ rule_result.diags[k].rule = "title/required"
          /\ rule_result.diags[k].deduction = 20
    /\ rule_result.bucket_scores["own"] = 80

(***************************************************************************)
(* color/low_contrast, as the specification words it.                      *)
(***************************************************************************)
\* The contrast of the colour against white, the double the slide's metrics
\* hold for 1.05 / (luminance + 0.05), is strictly below the threshold, given in
\* tenths: the fraction is, or it equals the threshold and its double is the
\* next one down.
StatedBelow(rgb, tenths) ==
    LET den == 2126 * rgb[1] + 7152 * rgb[2] + 722 * rgb[3] + 127500
    IN \/ 26775000 < tenths * den
       \/ 26775000 = tenths * den /\ rgb \in RoundsBelow

\* The minimum contrast of the colours is below the threshold: one of them is.
MinBelow(colors, tenths) ==
    \E n \in 1..Len(colors) : StatedBelow(colors[n].rgb, tenths)

HalfFloor(w) == CHOOSE q \in -100..100 : 2 * q <= w /\ w < 2 * q + 2

LowContrastFindings ==
    SelectSeq(rule_result.diags, LAMBDA f : f.rule = "color/low_contrast")

\* C14: with no parsed colour the slide has no color/low_contrast finding; with
\* a minimum contrast strictly below the error threshold it has one error at the
\* configured deduction; otherwise, strictly below the warn threshold, one
\* warning at floor(deduction / 2); otherwise none.  Nothing is below a
\* threshold that is null.
C14_LowContrast ==
    stage = "scored" =>
        LET colors == parsed_slide.metrics.colors
            cfg == deep_merge(DEFAULTS, config_in)
            err == Get3(cfg, "rules", "color", "min_contrast_error")
            warn == Get3(cfg, "rules", "color", "min_contrast_warn")
            w == Get2(cfg, "weights", "color/low_contrast").n
            found == LowContrastFindings
            Below(threshold) == IsNum(threshold) /\ MinBelow(colors, threshold.n)
        IN IF colors = <<>> THEN found = <<>>
           ELSE IF Below(err)
           THEN /\ Len(found) = 1
                /\ found[1].severity = "error" /\ found[1].deduction = w
           ELSE IF Below(warn)
           THEN /\ Len(found) = 1
                /\ found[1].severity = "warning" /\ found[1].deduction = HalfFloor(w)
           ELSE found = <<>>

\* The slides the rule leaves without a result: with a colour parsed and the
\* minimum contrast not below the error threshold, the comparison with a warn
\* threshold of null raises.
NullWarnRaises ==
    (stage \in {"scored", "failed"} /\ config_in = CfgNullWarn) =>
        (stage = "failed" <=>
            /\ parsed_slide.metrics.colors # <<>>
            /\ ~MinBelow(parsed_slide.metrics.colors, 30))

\* Black only, contrast 21.0, under an error threshold of 21.0 and a warn
\* threshold of 30.0 with the weight -5: no error, a warning at -3.
C14_Witness ==
    /\ stage = "scored" /\ config_in = CfgEdge
    /\ Len(parsed_slide.metrics.colors) = 1
    /\ parsed_slide.metrics.colors[1].rgb = <<0, 0, 0>>
    /\ Len(LowContrastFindings) = 1
    /\ LowContrastFindings[1].severity = "warning"
    /\ LowContrastFindings[1].deduction = -3

(***************************************************************************)
(* Leading frontmatter, as the specification words it.                     *)
(***************************************************************************)
\* A line without its whitespace; the lines of the documents hold none inside.
Trimmed(ln) == SelectSeq(ln, LAMBDA ch : ch \notin WhiteSpace)

\* How many leading lines the document loses: none when the first line is not
\* the marker, else all up to and including the next marker line, else all.
StatedDiscarded(ls) ==
    IF ls = <<>> \/ Trimmed(ls[1]) # <<"-", "-", "-">> THEN 0
    ELSE LET closing == { k \in 2..Len(ls) : Trimmed(ls[k]) = <<"-", "-", "-">> }
         IN IF closing = {} THEN Len(ls)
            ELSE CHOOSE k \in closing : \A other \in closing : k <= other

RECURSIVE Flat(_)
Flat(ss) == IF ss = <<>> THEN <<>> ELSE Head(ss) \o Flat(Tail(ss))

\* The lines from..to of the document that did not act as a separator.
KeptLines(from, to) ==
    LET idx == SelectSeq([n \in 1..(to - from + 1) |-> from + n - 1],
                         LAMBDA k : k \notin ended)
    IN [n \in 1..Len(idx) |-> lines[idx[n]]]

\* C15: once the frontmatter step is done, the lines read are exactly those
\* after the discarded block: the closed buffers and the open one hold the lines
\* after it that did not separate slides, no discarded line ended a slide,
\* reading starts in BODY on the line after the closing marker, and a block
\* that is never closed leaves zero slides. Without a leading marker line
\* nothing is discarded.
C15_Frontmatter ==
    pc # "frontmatter" =>
        LET c == StatedDiscarded(lines) IN
        /\ i > c
        /\ \A k \in ended : k > c
        /\ Flat(slides) \o buf = KeptLines(c + 1, Min(i - 1, Len(lines)))
        /\ (i = c + 1 => state = "BODY" /\ slides = <<>> /\ buf = <<>>)
        /\ (pc = "done" /\ c = Len(lines) => ret = <<>>)

\* A frontmatter block of three lines, padded markers included, and one slide
\* after it.
C15_Witness ==
    /\ pc = "done"
    /\ Len(lines) = 4
    /\ lines[1] = <<" ", "-", "-", "-", "\r">> /\ lines[2] = <<"a">>
    /\ StatedDiscarded(lines) = 3
    /\ lines[4] = <<"a">>
    /\ Len(ret) = 1

(***************************************************************************)
(* Fenced blocks of a slide, as the specification words them.              *)
(***************************************************************************)
IsFenceLine(ln) == StartsWith(Strip(ln), Backticks) \/ StartsWith(Strip(ln), Tildes)

TrailingText(ln) == Strip(SubSeq(Strip(ln), 4, Len(Strip(ln))))

\* The closed blocks of lines k.. of the text: opening is the index of the
\* opening line of the block being read, 0 outside a block.
RECURSIVE StatedBlocks(_, _, _)
StatedBlocks(t, k, opening) ==
    IF k > Len(t) THEN <<>>
    ELSE IF opening = 0
    THEN StatedBlocks(t, k + 1, IF IsFenceLine(t[k]) THEN k ELSE 0)
    ELSE IF StartsWith(Strip(t[k]), SubSeq(Strip(t[opening]), 1, 3))
    THEN <<[lines |-> k - opening - 1, lang |-> TrailingText(t[opening])]>>
         \o StatedBlocks(t, k + 1, 0)
    ELSE StatedBlocks(t, k + 1, opening)

StatedLimit(block, cfg) ==
    IF block.lang \in { Explode("python"), Explode("javascript"), Explode("java"), Explode("cpp") }
    THEN Get3(cfg, "rules", "code", "max_complex").n
    ELSE Get3(cfg, "rules", "code", "max_simple").n

\* C16 as stated: each closed block is recorded with the language that trails
\* its opening fence, and code/too_long is reported exactly when a block is
\* longer than the limit of that language.
C16_AsStated ==
    stage = "scored" =>
        LET blocks == StatedBlocks(text_in, 1, 0)
            cfg == deep_merge(DEFAULTS, config_in)
        IN /\ parsed_slide.metrics.code_blocks = blocks
           /\ (\E n \in 1..Len(rule_result.diags) :
                   rule_result.diags[n].rule = "code/too_long")
              <=> (\E n \in 1..Len(blocks) : blocks[n].lines > StatedLimit(blocks[n], cfg))

\* The part of C16 that holds: the blocks and their line counts are the stated
\* ones when the language is left aside.
C16_BlockLengths ==
    stage = "scored" =>
        LET blocks == StatedBlocks(text_in, 1, 0)
            found == parsed_slide.metrics.code_blocks
        IN /\ Len(found) = Len(blocks)
           /\ \A n \in 1..Len(blocks) : found[n].lines = blocks[n].lines

(***************************************************************************)
(* The title line in the content accounting.                               *)
(***************************************************************************)
\* The slide is the title line '# T' followed by lines that are no headings.
TitleThenContent ==
    /\ Len(text_in) >= 2
    /\ text_in[1] = <<"#", " ", "T">>
    /\ HeadingLines(Tail(text_in), <<"#">>) = {}

\* C17 as stated: removing the title line leaves content_chars,
\* content_chars_adjusted and lines unchanged.
C17_AsStated ==
    stage = "parsed" /\ TitleThenContent =>
        LET Same(without) ==
                /\ parsed_slide.metrics.content_chars = without.content_chars
                /\ parsed_slide.metrics.content_chars_adjusted = without.content_chars_adjusted
                /\ parsed_slide.metrics.lines = without.lines
        IN Same(scan_slide(Tail(text_in), DEFAULTS))

\* The part of C17 that holds: the two character counts are unchanged, and the
\* line count is one more with the title line than without it.
C17_CharsUnchanged ==
    stage = "parsed" /\ TitleThenContent =>
        LET Same(without) ==
                /\ parsed_slide.metrics.content_chars = without.content_chars
                /\ parsed_slide.metrics.content_chars_adjusted = without.content_chars_adjusted
                /\ parsed_slide.metrics.lines = without.lines + 1
        IN Same(scan_slide(Tail(text_in), DEFAULTS))

(***************************************************************************)
(* The adjusted character count under the configuration in effect.         *)
(***************************************************************************)
\* What one content line adds under the configuration: the table weight for a
\* table row, the diagram weight for a diagram marker, else its length.
StatedLineWeight(ln, cfg) ==
    IF Contains(ln, <<"|", " ">>) /\ Contains(ln, <<" ", "|", " ">>)
    THEN Get3(cfg, "rules", "special", "table_char_eq").n
    ELSE IF Contains(LowerAll(ln), Explode("mermaid"))
    THEN Get3(cfg, "rules", "special", "chart_char_eq").n
    ELSE TextLen(ln)

RECURSIVE StatedAdjusted(_, _)
StatedAdjusted(t, cfg) ==
    IF t = <<>> THEN 0
    ELSE StatedLineWeight(Head(t), cfg) + StatedAdjusted(Tail(t), cfg)

\* The slide has content lines only: no heading and no fence.
ContentOnly ==
    /\ HeadingLines(text_in, <<"#">>) = {}
    /\ \A n \in 1..Len(text_in) : ~IsFenceLine(text_in[n])

\* C18 as stated: content_chars_adjusted is computed with the weights of the
\* configuration in effect for the analysis, and content/too_long follows it.
C18_AsStated ==
    stage = "scored" /\ ContentOnly =>
        LET Holds(cfg) ==
                /\ parsed_slide.metrics.content_chars_adjusted = StatedAdjusted(text_in, cfg)
                /\ (\E n \in 1..Len(rule_result.diags) :
                        rule_result.diags[n].rule = "content/too_long")
                   <=> StatedAdjusted(text_in, cfg) > Get3(cfg, "rules", "content", "max_chars").n
        IN Holds(deep_merge(DEFAULTS, config_in))

\* What holds instead: the count is computed with the weights of DEFAULTS,
\* whatever the request configures.
C18_DefaultWeights ==
    stage = "scored" /\ ContentOnly =>
        /\ parsed_slide.metrics.content_chars_adjusted = StatedAdjusted(text_in, DEFAULTS)
        /\ (\E n \in 1..Len(rule_result.diags) :
                rule_result.diags[n].rule = "content/too_long")
           <=> StatedAdjusted(text_in, DEFAULTS)
                   > Get3(deep_merge(DEFAULTS, config_in), "rules", "content", "max_chars").n

(***************************************************************************)
(* Bucket scores after the duplicate-title pass.                           *)
(***************************************************************************)
\* The buckets of the configuration in effect for a reported slide: DEFAULTS,
\* the request's patch and the slide's own patch, merged in that order.
BucketsInEffect(r) ==
    Get(deep_merge(EffectiveConfig(last_request),
                   parse_inline_overrides(r.body).rules), "buckets").d

\* C19 as stated: a slide evaluated by the request and given a duplicate-title
\* finding has one score for each bucket of the configuration in effect for it,
\* computed over its final findings.
C19_AsStated ==
    \A n \in 1..Len(Reported) :
        Reported[n].uuid \in evaluated /\ DuplicateFindings(Reported[n]) # <<>> =>
            LET Holds(buckets) ==
                    /\ DOMAIN Reported[n].bucket_scores = DOMAIN buckets
                    /\ \A name \in DOMAIN buckets :
                          Reported[n].bucket_scores[name] =
                              Clamped(MatchingFindings(buckets[name].l,
                                                       Reported[n].diagnostics))
            IN Holds(BucketsInEffect(Reported[n]))

\* What holds instead: the buckets of the request's configuration are
\* recomputed over the final findings.
C19_RequestBuckets ==
    \A n \in 1..Len(Reported) :
        Reported[n].uuid \in evaluated /\ DuplicateFindings(Reported[n]) # <<>> =>
            LET Holds(buckets) ==
                    \A name \in DOMAIN buckets :
                        Reported[n].bucket_scores[name] =
                            Clamped(MatchingFindings(buckets[name].l,
                                                     Reported[n].diagnostics))
            IN Holds(Get(EffectiveConfig(last_request), "buckets").d)

(***************************************************************************)
(* The reach of a slide's inline patch.                                    *)
(***************************************************************************)
\* The slides the last request gave to evaluate_all, in order.
EvaluatedDeck ==
    LET Fresh(parsed) == SelectSeq(parsed.slides, LAMBDA sl : sl.uuid \in evaluated)
    IN Fresh(parse_slides(last_request.document))

\* The deck with the patch of every slide but the k-th absent.
OthersUnpatched(deck, k) ==
    [n \in 1..Len(deck) |->
        IF n = k THEN deck[n] ELSE [deck[n] EXCEPT !.overrides.rules = EmptyDict]]

ReportedFor(uuid) == Reported[CHOOSE n \in 1..Len(Reported) : Reported[n].uuid = uuid]

\* C20: each slide evaluated by the request has the findings, the score and the
\* bucket scores it has when the patches of the other slides are absent, and
\* the summary is computed under the configuration of the request alone: its
\* threshold and its buckets are those of DEFAULTS merged with the request's
\* patch, whatever the slides patch.
C20_PatchIsLocal ==
    last_request # NoRequest /\ last_response.ok =>
        LET cfg == EffectiveConfig(last_request)
            SameAs(r, alone) ==
                /\ r.diagnostics = alone.diagnostics
                /\ r.score = alone.score
                /\ r.bucket_scores = alone.bucket_scores
            Each(deck) ==
                \A k \in 1..Len(deck) :
                    SameAs(ReportedFor(deck[k].uuid),
                           evaluate_all(OthersUnpatched(deck, k), cfg).results[k])
        IN /\ Each(EvaluatedDeck)
           /\ last_response.summary.threshold = Get(cfg, "threshold")
           /\ DOMAIN last_response.summary.bucket_scores = DOMAIN Get(cfg, "buckets").d

\* A slide whose patch makes title/required weigh -5 and content/too_short 120,
\* evaluated before a slide that is reported with content/too_short at 5.
C20_Witness ==
    /\ last_request # NoRequest /\ last_response.ok
    /\ last_request.config = CfgNone
    /\ Len(Reported) = 2 /\ Len(EvaluatedDeck) = 2
    /\ Reported[1].body = SlidePatch /\ Reported[2].body = SlideA
    /\ \E n \in 1..Len(Reported[1].diagnostics) :
          /\ Reported[1].diagnostics[n].rule = "title/required"
          /\ Reported[1].diagnostics[n].deduction = -5
    /\ \E n \in 1..Len(Reported[2].diagnostics) :
          /\ Reported[2].diagnostics[n].rule = "content/too_short"
          /\ Reported[2].diagnostics[n].deduction = 5

(***************************************************************************)
(* The cache and the result of a request.                                  *)
(***************************************************************************)
\* What the report says of a slide's evaluation.
Outcome(r) ==
    [diagnostics |-> r.diagnostics, score |-> r.score, bucket_scores |-> r.bucket_scores]

Outcomes(rs) == [n \in 1..Len(rs) |-> Outcome(rs[n])]

\* C21 as stated: under one configuration, the findings, scores and bucket
\* scores a request reports for its slides are those the same request gets on
\* an empty cache, whatever the earlier requests left in the cache.
C21_AsStated ==
    last_request # NoRequest /\ last_response.ok =>
        LET SameAs(empty) ==
                /\ empty.response.ok
                /\ Outcomes(Reported) = Outcomes(empty.response.slides)
        IN SameAs(Handle(last_request, NoCache))

\* What holds instead: the findings of the registered rules, all but
\* structure/duplicate_titles, are those of an empty cache.
OwnFindings(r) == SelectSeq(r.diagnostics, LAMBDA f : f.rule # "structure/duplicate_titles")

C21_OwnFindings ==
    last_request # NoRequest /\ last_response.ok =>
        LET SameAs(empty) ==
                /\ empty.response.ok
                /\ Len(Reported) = Len(empty.response.slides)
                /\ \A n \in 1..Len(Reported) :
                      OwnFindings(Reported[n]) = OwnFindings(empty.response.slides[n])
        IN SameAs(Handle(last_request, NoCache))

\* C22 as stated: every slide of a successful response carries, next to any
\* duplicate-title finding, the findings the registered rules produce for it
\* under DEFAULTS merged with the configuration of this request.
C22_AsStated ==
    last_request # NoRequest /\ last_response.ok =>
        LET cfg == EffectiveConfig(last_request)
            Same(n, r) == ~r.raised /\ OwnFindings(Reported[n]) = r.diags
            Each(parsed) ==
                /\ Len(parsed.slides) = Len(Reported)
                /\ \A n \in 1..Len(Reported) :
                      Same(n, run_rules_on_slide(parsed.slides[n], cfg))
        IN Each(parse_slides(last_request.document))

\* What holds instead: the slides this request evaluated carry the findings of
\* its configuration; a slide answered from the cache carries those of the
\* request that cached it.
C22_FreshSlides ==
    last_request # NoRequest /\ last_response.ok =>
        LET cfg == EffectiveConfig(last_request)
            Same(n, r) == ~r.raised /\ OwnFindings(Reported[n]) = r.diags
            Each(parsed) ==
                /\ Len(parsed.slides) = Len(Reported)
                /\ \A n \in 1..Len(Reported) :
                      Reported[n].uuid \in evaluated
                      => Same(n, run_rules_on_slide(parsed.slides[n], cfg))
        IN Each(parse_slides(last_request.document))

\* C23 as stated: the slide_results of a successful request hold one entry for
\* each parsed slide, in document order, and the entry at a position is the
\* result of the slide at that position, its index (counted from 0) included.
C23_AsStated ==
    last_request # NoRequest /\ last_response.ok =>
        LET Each(parsed) ==
                /\ Len(last_results) = Len(parsed.slides)
                /\ \A n \in 1..Len(last_results) :
                      /\ last_results[n].uuid = parsed.slides[n].uuid
                      /\ last_results[n].index = n - 1
        IN Each(parse_slides(last_request.document))

\* What holds instead: one entry for each slide, in document order by
\* identity, and the index of a slide whose content no other slide shares.
C23_DistinctSlides ==
    last_request # NoRequest /\ last_response.ok =>
        LET Each(parsed) ==
                /\ Len(last_results) = Len(parsed.slides)
                /\ \A n \in 1..Len(last_results) :
                      /\ last_results[n].uuid = parsed.slides[n].uuid
                      /\ (\A m \in 1..Len(last_results) :
                             m # n => parsed.slides[m].uuid # parsed.slides[n].uuid)
                         => last_results[n].index = n - 1
        IN Each(parse_slides(last_request.document))

\* The slide identities of the document of the last request.
DocumentIdentities ==
    LET Ids(parsed) == { parsed.slides[n].uuid : n \in 1..Len(parsed.slides) }
    IN Ids(parse_slides(last_request.document))

\* C24: a run leaves every entry the cache held before it as it was, adds
\* entries only for slide identities of its document that were missing, and
\* after a successful run every slide identity of the document has an entry.
C24_CacheOnlyGrows ==
    last_request # NoRequest =>
        /\ \A uuid \in DOMAIN before :
              uuid \in DOMAIN cache_file /\ cache_file[uuid] = before[uuid]
        /\ (DOMAIN cache_file \ DOMAIN before) \subseteq DocumentIdentities
        /\ last_response.ok => DocumentIdentities \subseteq DOMAIN cache_file

\* A run of two slides on a cache that holds one of them and another
\* document's slide: it adds the entry of the missing one.
C24_Witness ==
    /\ last_request # NoRequest /\ last_response.ok
    /\ Cardinality(DocumentIdentities) = 2
    /\ Cardinality(DocumentIdentities \cap DOMAIN before) = 1
    /\ DOMAIN before \ DocumentIdentities # {}
    /\ DOMAIN cache_file = DOMAIN before \cup DocumentIdentities

====
